---- MODULE Spec2Model ----
(***************************************************************************)
(* Model of the Stoloto lottery assistant: the recommendation scorer       *)
(* (recommendations/engine.py), the draw-page extractor                    *)
(* (parsers/stoloto_parser.py) and the loader (parsers/db_loader.py) over  *)
(* the store reached through database/db.py.                               *)
(*                                                                         *)
(* Each component has its own specification over the shared variables:     *)
(*   SpecScore   - _calculate_lottery_score on one (lottery, preferences)  *)
(*   SpecParse   - parse_draw_page on one fetched archive page             *)
(*   SpecCatalog - runs of load_lotteries against the lotteries table      *)
(*   SpecDraws   - runs of load_draws against draws and prize_categories,  *)
(*                 with a concurrent reader of prize_categories            *)
(*   SpecSitemap - parse_sitemap_main and parse_sitemap_archive on one     *)
(*                 sitemap response                                        *)
(*   SpecPipeline - load_lotteries and load_draws run one after the other  *)
(*   SpecEngine  - calls of generate_recommendations for one user          *)
(*   SpecConcurrent - two load_draws processes over the same tables         *)
(*   SpecDatabase - calls of Database.execute_query and execute_many        *)
(* A component's variables rest at their idle values in the others.        *)
(***************************************************************************)
EXTENDS Integers, Sequences, FiniteSets, TLC

VARIABLES
    lottery,        \* scorer: the lottery row handed to _calculate_lottery_score
    preferences,    \* scorer: the user_preferences row
    result,         \* scorer: None before the call, Some(score) after it
    page,           \* parser: the fetched archive page handed to parse_draw_page
    parsed,         \* parser: None before the call, then Some([out, used]):
                    \*   out the value returned, used the position in queries of
                    \*   the fragment extracted from (-1 pageProps, 0 none)

    lotteries,      \* store: the lotteries table, rows in insertion order
    today,          \* loader: the value of datetime.now(), one tick per run
    catalog,        \* loader: the locals of the running load_lotteries
    runs,           \* loader: load_lotteries runs started so far
    failures,       \* store: statements that have raised so far
    draws,          \* store: the draws table, rows in insertion order
    prize_categories, \* store: the prize_categories table, rows in insertion order
    loader,         \* loader: per load_draws process, its locals
    seen,           \* reader: the prize_categories rows its last query returned
    sitemap,        \* sitemaps: the response to the sitemap request
    found,          \* sitemaps: None, then Some of what the two parsers returned
    user_preferences, \* store: the user's user_preferences row, None when absent
    recommendations,  \* store: the recommendations table, rows in insertion order
    reply,          \* engine: what the last generate_recommendations call returned
    pool,           \* database: Database._pool, None before initialize
    call            \* database: the running execute_query / execute_many call

scoreVars == <<lottery, preferences, result>>
parseVars == <<page, parsed>>
catalogVars == <<lotteries, today, catalog, runs, failures>>
drawVars == <<draws, prize_categories, loader, seen>>
sitemapVars == <<sitemap, found>>
engineVars == <<user_preferences, recommendations, reply>>
dbVars == <<pool, call>>
vars == <<scoreVars, parseVars, catalogVars, drawVars, sitemapVars, engineVars, dbVars>>

\* the values a component's variables rest at while another one runs
ScoreIdle == lottery = <<>> /\ preferences = <<>> /\ result = <<>>
ParseIdle == page = <<>> /\ parsed = <<>>
CatalogIdle ==
    lotteries = <<>> /\ today = 0 /\ catalog = <<>> /\ runs = 0 /\ failures = 0
DrawsIdle == draws = <<>> /\ prize_categories = <<>> /\ loader = <<>> /\ seen = <<>>
SitemapIdle == sitemap = <<>> /\ found = <<>>
EngineIdle == user_preferences = <<>> /\ recommendations = <<>> /\ reply = <<>>
DatabaseIdle == pool = <<>> /\ call = <<>>

(***************************************************************************)
(* Python values.  A nullable column or dict entry is None or Some(v).     *)
(***************************************************************************)
None == <<>>
Some(x) == <<x>>
Val(o) == o[1]

\* Python truthiness of a nullable number: None and 0 are both falsy.
TruthyNum(o) == o # None /\ Val(o) # 0
\* Python truthiness of a nullable string: None and '' are both falsy.
TruthyStr(o) == o # None /\ Val(o) # ""

(***************************************************************************)
(* Float arithmetic of the scorer, kept exact: a number is a reduced       *)
(* fraction <<n, d>> with d > 0.  A division by zero raises                *)
(* ZeroDivisionError, which leaves the function: it is the value Raised,   *)
(* and every operation on it yields it.                                    *)
(***************************************************************************)
Raised == <<0, 0>>

Abs(x) == IF x < 0 THEN -x ELSE x

RECURSIVE GCD(_, _)
GCD(a, b) == IF b = 0 THEN a ELSE GCD(b, a % b)

Frac(n, d) ==
    IF d = 0 THEN Raised
    ELSE LET g == GCD(Abs(n), d)
         IN  <<n \div g, d \div g>>

FromInt(n) == <<n, 1>>
RAdd(x, y) == Frac(x[1] * y[2] + y[1] * x[2], x[2] * y[2])
RSub(x, y) == Frac(x[1] * y[2] - y[1] * x[2], x[2] * y[2])
RMul(x, y) == Frac(x[1] * y[1], x[2] * y[2])
\* x / y for y >= 0; Raised when y is 0
RDiv(x, y) == Frac(x[1] * y[2], x[2] * y[1])
RLe(x, y) == x[1] * y[2] <= y[1] * x[2]
RLt(x, y) == x[1] * y[2] < y[1] * x[2]
RMax(x, y) == IF x = Raised \/ y = Raised THEN Raised ELSE IF RLe(x, y) THEN y ELSE x

(***************************************************************************)
(* RecommendationEngine._calculate_lottery_score                           *)
(* (recommendations/engine.py:126-214).                                    *)
(*                                                                         *)
(* A lottery row is [ticket_price, lottery_type, max_prize,                *)
(* avg_win_probability]; a preference row is [budget,                      *)
(* preferred_prize_type, preferred_prize_size,                             *)
(* min_acceptable_probability, risk_profile].  Every field is nullable.    *)
(* A probability Some(k) stands for k / ProbDen.                           *)
(***************************************************************************)
MaxPrice == 4        \* ticket prices 0..MaxPrice (currency units)
MaxBudget == 2       \* budgets 0..MaxBudget (same units)
ProbDen == 2         \* probabilities k/ProbDen, k in 0..ProbDen

W_BUDGET == 30
W_TYPE == 25
W_SIZE == 20
W_PROB == 15
W_RISK == 10
PARTIAL_TYPE == 10
PARTIAL_SIZE == 10
MODERATE_RISK == 7
DEFAULT_SCORE == 50
SMALL_MAX == 10000
MEDIUM_MAX == 100000
LARGE_MAX == 1000000

\* size_ranges: (min_range, max_range); None as max_range is float('inf').
size_ranges ==
    [small   |-> <<0, Some(SMALL_MAX)>>,
     medium  |-> <<SMALL_MAX, Some(MEDIUM_MAX)>>,
     large   |-> <<MEDIUM_MAX, Some(LARGE_MAX)>>,
     jackpot |-> <<LARGE_MAX, None>>]

\* max_prize <= max_range, with max_range possibly infinite
LeqRange(v, hi) == hi = None \/ v <= Val(hi)

Skipped == [score |-> FromInt(0), max |-> 0]

\* BudgetFactor with the max(0, ...) clamp of the over-budget branch dropped
BudgetFactorNoClamp(lot, pref) ==
    IF TruthyNum(pref.budget) /\ TruthyNum(lot.ticket_price)
    THEN LET budget == FromInt(Val(pref.budget))
             price  == FromInt(Val(lot.ticket_price))
         IN  [score |->
                IF RLe(price, budget)
                THEN RMul(FromInt(W_BUDGET), RDiv(price, budget))
                ELSE RMul(FromInt(W_BUDGET),
                          RSub(FromInt(1), RDiv(RSub(price, budget), budget))),
              max |-> W_BUDGET]
    ELSE Skipped

\* BudgetFactor with the overshoot taken relative to the price, not the budget
BudgetFactorDecayByPrice(lot, pref) ==
    IF TruthyNum(pref.budget) /\ TruthyNum(lot.ticket_price)
    THEN LET budget == FromInt(Val(pref.budget))
             price  == FromInt(Val(lot.ticket_price))
         IN  [score |->
                IF RLe(price, budget)
                THEN RMul(FromInt(W_BUDGET), RDiv(price, budget))
                ELSE RMax(FromInt(0),
                          RMul(FromInt(W_BUDGET),
                               RSub(FromInt(1), RDiv(RSub(price, budget), price)))),
              max |-> W_BUDGET]
    ELSE Skipped

\* BudgetFactor guarded by `is not None` instead of truthiness
BudgetFactorNullGuards(lot, pref) ==
    IF pref.budget # None /\ lot.ticket_price # None
    THEN LET budget == FromInt(Val(pref.budget))
             price  == FromInt(Val(lot.ticket_price))
         IN  [score |->
                IF RLe(price, budget)
                THEN RMul(FromInt(W_BUDGET), RDiv(price, budget))
                ELSE RMax(FromInt(0),
                          RMul(FromInt(W_BUDGET),
                               RSub(FromInt(1), RDiv(RSub(price, budget), budget)))),
              max |-> W_BUDGET]
    ELSE Skipped

\* Budget match (weight: 30)
BudgetFactor(lot, pref) ==
    IF TruthyNum(pref.budget) /\ TruthyNum(lot.ticket_price)
    THEN LET budget == FromInt(Val(pref.budget))
             price  == FromInt(Val(lot.ticket_price))
         IN  [score |->
                IF RLe(price, budget)
                THEN RMul(FromInt(W_BUDGET), RDiv(price, budget))
                ELSE RMax(FromInt(0),
                          RMul(FromInt(W_BUDGET),
                               RSub(FromInt(1), RDiv(RSub(price, budget), budget)))),
              max |-> W_BUDGET]
    ELSE Skipped

\* TypeFactor with nothing given for the opposite type
TypeFactorNoPartial(lot, pref) ==
    IF TruthyStr(pref.preferred_prize_type)
    THEN LET pref_type == Val(pref.preferred_prize_type)
             lottery_type == lot.lottery_type
         IN  [score |->
                IF pref_type = "both" \/ Some(pref_type) = lottery_type
                THEN FromInt(W_TYPE)
                ELSE FromInt(0),
              max |-> W_TYPE]
    ELSE Skipped

\* Lottery type match (weight: 25)
TypeFactor(lot, pref) ==
    IF TruthyStr(pref.preferred_prize_type)
    THEN LET pref_type == Val(pref.preferred_prize_type)
             lottery_type == lot.lottery_type
         IN  [score |->
                IF pref_type = "both" \/ Some(pref_type) = lottery_type
                THEN FromInt(W_TYPE)
                ELSE IF pref_type \in {"instant", "draw"} /\ TruthyStr(lottery_type)
                     THEN FromInt(PARTIAL_TYPE)
                     ELSE FromInt(0),
              max |-> W_TYPE]
    ELSE Skipped

\* Prize size match (weight: 20)
SizeFactor(lot, pref) ==
    IF TruthyStr(pref.preferred_prize_size) /\ TruthyNum(lot.max_prize)
    THEN LET pref_size == Val(pref.preferred_prize_size)
             max_prize == Val(lot.max_prize)
         IN  [score |->
                IF pref_size \in DOMAIN size_ranges
                THEN LET min_range == size_ranges[pref_size][1]
                         max_range == size_ranges[pref_size][2]
                     IN  IF min_range <= max_prize /\ LeqRange(max_prize, max_range)
                         THEN FromInt(W_SIZE)
                         ELSE IF max_prize < min_range
                              THEN RMul(FromInt(PARTIAL_SIZE), Frac(max_prize, min_range))
                              ELSE FromInt(PARTIAL_SIZE)
                ELSE FromInt(0),
              max |-> W_SIZE]
    ELSE Skipped

\* Win probability match (weight: 15)
ProbFactor(lot, pref) ==
    IF TruthyNum(pref.min_acceptable_probability) /\ TruthyNum(lot.avg_win_probability)
    THEN LET min_prob == Frac(Val(pref.min_acceptable_probability), ProbDen)
             avg_prob == Frac(Val(lot.avg_win_probability), ProbDen)
         IN  [score |->
                IF RLe(min_prob, avg_prob)
                THEN FromInt(W_PROB)
                ELSE RMul(FromInt(W_PROB), RDiv(avg_prob, min_prob)),
              max |-> W_PROB]
    ELSE Skipped

\* RiskFactor leaving an unmatched profile out of the denominator
RiskFactorSkipsUnmatched(lot, pref) ==
    IF TruthyStr(pref.risk_profile) /\ TruthyStr(lot.lottery_type)
    THEN LET risk_profile == Val(pref.risk_profile)
             lottery_type == Val(lot.lottery_type)
         IN  IF risk_profile = "conservative" /\ lottery_type = "instant"
             THEN [score |-> FromInt(W_RISK), max |-> W_RISK]
             ELSE IF risk_profile = "aggressive" /\ lottery_type = "draw"
                  THEN [score |-> FromInt(W_RISK), max |-> W_RISK]
                  ELSE IF risk_profile = "moderate"
                       THEN [score |-> FromInt(MODERATE_RISK), max |-> W_RISK]
                       ELSE Skipped
    ELSE Skipped

\* Risk profile match (weight: 10)
RiskFactor(lot, pref) ==
    IF TruthyStr(pref.risk_profile) /\ TruthyStr(lot.lottery_type)
    THEN LET risk_profile == Val(pref.risk_profile)
             lottery_type == Val(lot.lottery_type)
         IN  [score |->
                IF risk_profile = "conservative" /\ lottery_type = "instant"
                THEN FromInt(W_RISK)
                ELSE IF risk_profile = "aggressive" /\ lottery_type = "draw"
                     THEN FromInt(W_RISK)
                     ELSE IF risk_profile = "moderate"
                          THEN FromInt(MODERATE_RISK)
                          ELSE FromInt(0),
              max |-> W_RISK]
    ELSE Skipped

Factors(lot, pref) ==
    <<BudgetFactor(lot, pref), TypeFactor(lot, pref), SizeFactor(lot, pref),
      ProbFactor(lot, pref), RiskFactor(lot, pref)>>

\* the running numerator `score` after all five factors
ScoreSum(lot, pref) ==
    LET f == Factors(lot, pref)
    IN  RAdd(RAdd(RAdd(RAdd(f[1].score, f[2].score), f[3].score), f[4].score), f[5].score)

\* the running denominator `max_score` after all five factors
MaxScoreSum(lot, pref) ==
    LET f == Factors(lot, pref)
    IN  f[1].max + f[2].max + f[3].max + f[4].max + f[5].max

\* calculate_lottery_score falling back to 0.0 when no factor applied
calculate_lottery_score_default_zero(lot, pref) ==
    LET score == ScoreSum(lot, pref)
        max_score == MaxScoreSum(lot, pref)
    IN  IF max_score > 0
        THEN RMul(RDiv(score, FromInt(max_score)), FromInt(100))
        ELSE FromInt(0)

\* Normalize score to 0-100, or the default when no factor applied
calculate_lottery_score(lot, pref) ==
    LET score == ScoreSum(lot, pref)
        max_score == MaxScoreSum(lot, pref)
    IN  IF max_score > 0
        THEN RMul(RDiv(score, FromInt(max_score)), FromInt(100))
        ELSE FromInt(DEFAULT_SCORE)

(***************************************************************************)
(* Inputs of the scorer.                                                   *)
(***************************************************************************)
Opt(S) == {None} \cup {Some(x) : x \in S}

PrizeSamples == {0, 5000, SMALL_MAX, MEDIUM_MAX, LARGE_MAX, 5 * LARGE_MAX}

Lotteries ==
    [ticket_price : Opt(0..MaxPrice),
     lottery_type : Opt({"instant", "draw"}),
     max_prize : Opt(PrizeSamples),
     avg_win_probability : Opt(0..ProbDen)]

Preferences ==
    [budget : Opt(0..MaxBudget),
     preferred_prize_type : Opt({"instant", "draw", "both"}),
     preferred_prize_size : Opt({"small", "medium", "large", "jackpot"}),
     min_acceptable_probability : Opt(0..ProbDen),
     risk_profile : Opt({"conservative", "moderate", "aggressive"})]

NoPreferences ==
    [budget |-> None, preferred_prize_type |-> None, preferred_prize_size |-> None,
     min_acceptable_probability |-> None, risk_profile |-> None]

InitScore ==
    /\ lottery \in Lotteries
    /\ preferences \in Preferences
    /\ result = None
    /\ ParseIdle
    /\ CatalogIdle
    /\ DrawsIdle
    /\ SitemapIdle
    /\ EngineIdle
    /\ DatabaseIdle

\* score = self._calculate_lottery_score(lottery, preferences)
CalcScore ==
    /\ result = None
    /\ result' = Some(calculate_lottery_score(lottery, preferences))
    /\ UNCHANGED <<lottery, preferences, parseVars, catalogVars, drawVars, sitemapVars, engineVars, dbVars>>

NextScore == CalcScore

SpecScore == InitScore /\ [][NextScore]_vars

(***************************************************************************)
(* Properties of the scorer, checked under SpecScore.                      *)
(***************************************************************************)
Scored == result # None

\* the same lottery at another ticket price
AtPrice(lot, p) == [lot EXCEPT !.ticket_price = Some(p)]

\* C1: for every lottery row and preference row with non-negative numbers
\* and enum fields in their value sets (any field possibly null), the score
\* returned by _calculate_lottery_score lies in the closed range [0, 100].
C1_ScoreInRange ==
    Scored => /\ RLe(FromInt(0), Val(result))
              /\ RLe(Val(result), FromInt(100))

\* all five factors applied and every one of them matched in full
C1_Witness ==
    /\ Scored
    /\ MaxScoreSum(lottery, preferences) = 100
    /\ Val(result) = FromInt(100)

\* C2: with every preference field null the score is exactly 50.0,
\* whatever the lottery's attributes are.
C2_NullPreferencesScoreFifty ==
    (Scored /\ preferences = NoPreferences) => Val(result) = FromInt(DEFAULT_SCORE)

\* a fully described lottery scored against the all-null preference row
C2_Witness ==
    /\ Scored
    /\ preferences = NoPreferences
    /\ TruthyNum(lottery.ticket_price)
    /\ TruthyStr(lottery.lottery_type)
    /\ TruthyNum(lottery.max_prize)
    /\ TruthyNum(lottery.avg_win_probability)

\* C8 (as claimed): for a budget B > 0 and ticket prices p1 < p2 <= B on
\* otherwise identical rows, score(p1) <= score(p2).
C8_ScoreMonotoneWithinBudget ==
    (Scored /\ TruthyNum(preferences.budget) /\ lottery.ticket_price # None) =>
        \A p2 \in 0..MaxPrice :
            (Val(lottery.ticket_price) < p2 /\ p2 <= Val(preferences.budget)) =>
                RLe(Val(result),
                    calculate_lottery_score(AtPrice(lottery, p2), preferences))

\* the budget factor's contribution to the numerator at price p
BudgetContribution(lot, pref, p) == BudgetFactor(AtPrice(lot, p), pref).score

\* C9 (as claimed): for a budget B > 0 and prices B < p1 < p2 the budget
\* contribution at p2 is strictly smaller than at p1.
C9_DecayStrictEverywhere ==
    (Scored /\ TruthyNum(preferences.budget) /\ lottery.ticket_price # None) =>
        \A p2 \in 0..MaxPrice :
            (Val(preferences.budget) < Val(lottery.ticket_price)
                /\ Val(lottery.ticket_price) < p2) =>
                RLt(BudgetContribution(lottery, preferences, p2),
                    BudgetContribution(lottery, preferences, Val(lottery.ticket_price)))

\* C9 (amended): for a budget B > 0 and prices B < p1 < p2 the budget
\* contribution at p2 is strictly smaller than at p1 while p1 < 2B, and both
\* contributions are 0 once p1 >= 2B.
C9_DecayStrictUntilDouble ==
    (Scored /\ TruthyNum(preferences.budget) /\ lottery.ticket_price # None) =>
        \A p2 \in 0..MaxPrice :
            LET B  == Val(preferences.budget)
                p1 == Val(lottery.ticket_price)
                c1 == BudgetContribution(lottery, preferences, p1)
                c2 == BudgetContribution(lottery, preferences, p2)
            IN  (B < p1 /\ p1 < p2) =>
                    IF p1 < 2 * B
                    THEN RLt(c2, c1)
                    ELSE c1 = FromInt(0) /\ c2 = FromInt(0)

\* a scored lottery priced between the budget and twice the budget, with a
\* dearer price still in range
C9_Witness ==
    /\ Scored
    /\ TruthyNum(preferences.budget)
    /\ lottery.ticket_price # None
    /\ Val(preferences.budget) < Val(lottery.ticket_price)
    /\ Val(lottery.ticket_price) < 2 * Val(preferences.budget)
    /\ Val(lottery.ticket_price) < MaxPrice

\* the weights of the five factors, in the order of Factors
Weights == <<W_BUDGET, W_TYPE, W_SIZE, W_PROB, W_RISK>>

\* the inputs factor k reads are present (not null) on both records
InputsPresent(lot, pref, k) ==
    CASE k = 1 -> pref.budget # None /\ lot.ticket_price # None
      [] k = 2 -> pref.preferred_prize_type # None /\ lot.lottery_type # None
      [] k = 3 -> pref.preferred_prize_size # None /\ lot.max_prize # None
      [] k = 4 -> pref.min_acceptable_probability # None /\ lot.avg_win_probability # None
      [] k = 5 -> pref.risk_profile # None /\ lot.lottery_type # None

\* C11 (as claimed): factor k adds its weight to the denominator exactly
\* when its inputs are present on both records, and adds nothing to the
\* numerator or the denominator otherwise.
C11_WeightCountedIffInputsPresent ==
    Scored =>
        \A k \in 1..5 :
            LET f == Factors(lottery, preferences)[k]
            IN  IF InputsPresent(lottery, preferences, k)
                THEN f.max = Weights[k]
                ELSE f.max = 0 /\ f.score = FromInt(0)

\* C20: for every preference row and lottery row in which any fields are
\* null or zero, _calculate_lottery_score returns a number: no division by
\* zero (or other exception) leaves the function.
C20_ScoreNeverRaises ==
    Scored => Val(result) # Raised /\ Val(result)[2] > 0

\* a row pair with every numeric field zero has been scored
C20_Witness ==
    /\ Scored
    /\ preferences.budget = Some(0)
    /\ preferences.min_acceptable_probability = Some(0)
    /\ lottery.ticket_price = Some(0)
    /\ lottery.max_prize = Some(0)
    /\ lottery.avg_win_probability = Some(0)
    /\ preferences.preferred_prize_size # None

\* the same preferences with another preferred prize size
WithSize(pref, size) == [pref EXCEPT !.preferred_prize_size = Some(size)]

\* the bucket of the half-open ranges [0, 10000), [10000, 100000),
\* [100000, 1000000), [1000000, inf) that holds v
HalfOpenBucket(v) ==
    IF v < SMALL_MAX THEN "small"
    ELSE IF v < MEDIUM_MAX THEN "medium"
    ELSE IF v < LARGE_MAX THEN "large"
    ELSE "jackpot"

\* C21 (as claimed): for every max prize v > 0 the size factor contributes
\* the full 20 for exactly one preferred size, the half-open bucket holding
\* v; a v equal to a bucket's upper bound does not get 20 for that bucket.
C21_BucketsHalfOpen ==
    (Scored /\ TruthyNum(lottery.max_prize)) =>
        \A size \in DOMAIN size_ranges :
            (SizeFactor(lottery, WithSize(preferences, size)).score = FromInt(W_SIZE))
                <=> (size = HalfOpenBucket(Val(lottery.max_prize)))

\* the preference names a type and no other factor applies
OnlyTypeApplies ==
    /\ TruthyStr(preferences.preferred_prize_type)
    /\ MaxScoreSum(lottery, preferences) = W_TYPE

\* C22: with a preferred prize type stated the type factor adds 25 to the
\* denominator, and to the numerator 25 when the preference is 'both' or
\* equals the lottery's type and 10 when the preference is 'instant' or
\* 'draw' and the lottery has the other type; when no other factor applies
\* the score is accordingly 100 or 40, never 0.
C22_TypeMatchOrPartial ==
    (Scored /\ TruthyStr(preferences.preferred_prize_type)) =>
        LET pref_type == Val(preferences.preferred_prize_type)
            f == Factors(lottery, preferences)[2]
            full == pref_type = "both" \/ lottery.lottery_type = Some(pref_type)
            opposite == /\ pref_type \in {"instant", "draw"}
                        /\ lottery.lottery_type # None
                        /\ lottery.lottery_type # Some(pref_type)
        IN  /\ f.max = 25
            /\ full => f.score = FromInt(25)
            /\ opposite => f.score = FromInt(10)
            /\ (OnlyTypeApplies /\ full) => Val(result) = FromInt(100)
            /\ (OnlyTypeApplies /\ opposite) => Val(result) = FromInt(40)

\* a draw lottery scored for a user who prefers instant ones, no other
\* factor applying
C22_Witness ==
    /\ Scored
    /\ OnlyTypeApplies
    /\ preferences.preferred_prize_type = Some("instant")
    /\ lottery.lottery_type = Some("draw")
    /\ Val(result) = FromInt(40)

\* the preference names a risk profile, the lottery a type, and no other
\* factor applies
OnlyRiskApplies ==
    /\ TruthyStr(preferences.risk_profile)
    /\ TruthyStr(lottery.lottery_type)
    /\ MaxScoreSum(lottery, preferences) = W_RISK

\* C23: with a risk profile and a lottery type both present the risk factor
\* adds 10 to the denominator, and to the numerator 10 for
\* conservative+instant and aggressive+draw, 7 for moderate, 0 otherwise;
\* when no other factor applies the score is accordingly 100, 70 or 0.
C23_RiskContribution ==
    (Scored /\ preferences.risk_profile # None /\ lottery.lottery_type # None) =>
        LET risk_profile == Val(preferences.risk_profile)
            lottery_type == Val(lottery.lottery_type)
            f == Factors(lottery, preferences)[5]
            expected ==
                IF <<risk_profile, lottery_type>> \in
                        {<<"conservative", "instant">>, <<"aggressive", "draw">>}
                THEN 10
                ELSE IF risk_profile = "moderate" THEN 7 ELSE 0
        IN  /\ f.max = 10
            /\ f.score = FromInt(expected)
            /\ OnlyRiskApplies => Val(result) = FromInt(10 * expected)

\* a conservative profile against a draw lottery, no other factor applying:
\* the factor counts and the score is 0
C23_Witness ==
    /\ Scored
    /\ OnlyRiskApplies
    /\ preferences.risk_profile = Some("conservative")
    /\ lottery.lottery_type = Some("draw")
    /\ Val(result) = FromInt(0)

\* C25 (as claimed): with a preferred size naming the bucket [lo, hi) and a
\* max prize v outside it, the size factor adds 20 to the denominator and
\* to the numerator 10 * v / lo, less than 10, when v < lo and 10 when
\* v >= hi.
C25_PartialOutsideBucket ==
    (Scored /\ preferences.preferred_prize_size # None /\ lottery.max_prize # None) =>
        LET v == Val(lottery.max_prize)
            lo == size_ranges[Val(preferences.preferred_prize_size)][1]
            hi == size_ranges[Val(preferences.preferred_prize_size)][2]
            f == Factors(lottery, preferences)[3]
        IN  /\ v < lo => /\ f.max = 20
                         /\ f.score = Frac(10 * v, lo)
                         /\ RLt(f.score, FromInt(10))
            /\ (hi # None /\ v >= Val(hi)) => /\ f.max = 20
                                              /\ f.score = FromInt(10)

(***************************************************************************)
(* StolotoParser.parse_draw_page and _parse_from_next_data                 *)
(* (parsers/stoloto_parser.py:187-344).                                    *)
(*                                                                         *)
(* A JSON object is a function from its keys to nullable values: a key is  *)
(* present iff it is in the DOMAIN, a JSON null is None, any other value v *)
(* is Some(v).  The payload state.data of a query is tagged with its JSON  *)
(* type: [kind |-> "dict", d |-> object], [kind |-> "list", xs |-> <<..>>] *)
(* or [kind |-> "null"].                                                   *)
(***************************************************************************)
EmptyDict == [k \in {} |-> None]

\* d.get(k): None when the key is absent or its value is null
Get(d, k) == IF k \in DOMAIN d THEN d[k] ELSE None

\* python `not d` for a dict
IsEmptyDict(d) == DOMAIN d = {}

\* d restricted to the keys K
Restrict(d, K) == [k \in (DOMAIN d) \cap K |-> d[k]]

\* query keys of the page vocabulary that contain the substring 'draw'
KeysWithDraw == {"service-draws", "draw-archive"}

\* query_key[0] == 'service-draws' or 'draw' in query_key[0]
is_draw_query(query_key) ==
    \/ query_key[1] = "service-draws"
    \/ query_key[1] \in KeysWithDraw

\* the payload with one level of list-wrapping or a nested 'draw' object
\* removed; [skip |-> TRUE] is `continue`, [raise |-> TRUE] a TypeError
Unwrap(candidate_data) ==
    CASE candidate_data.kind = "list" ->
            IF candidate_data.xs = <<>>
            THEN [skip |-> TRUE, raise |-> FALSE, info |-> EmptyDict]
            ELSE [skip |-> IsEmptyDict(candidate_data.xs[1]), raise |-> FALSE,
                  info |-> candidate_data.xs[1]]
      [] candidate_data.kind = "null" ->
            [skip |-> FALSE, raise |-> TRUE, info |-> EmptyDict]
      [] OTHER ->
            LET d == candidate_data.d
                candidate_info ==
                    IF "draw" \in DOMAIN d /\ d["draw"] # None THEN Val(d["draw"]) ELSE d
            IN  [skip |-> IsEmptyDict(candidate_info), raise |-> FALSE,
                 info |-> candidate_info]

\* Score this candidate based on completeness
CandidateScore(candidate_info) ==
      (IF "drawNumber" \in DOMAIN candidate_info THEN 1 ELSE 0)
    + (IF "winCategories" \in DOMAIN candidate_info THEN 10 ELSE 0)
    + (IF "winningNumbers" \in DOMAIN candidate_info THEN 10 ELSE 0)
    + (IF "totalPrizeFund" \in DOMAIN candidate_info THEN 5 ELSE 0)

NoBest == [info |-> EmptyDict, score |-> -1, idx |-> 0, raised |-> FALSE]

\* KeepBetter with `score >= best_score`: a later candidate of equal score wins
KeepBetterOrEqual(best, candidate_info, i) ==
    IF CandidateScore(candidate_info) >= best.score
    THEN [best EXCEPT !.info = candidate_info,
                      !.score = CandidateScore(candidate_info),
                      !.idx = i]
    ELSE best

\* if score > best_score: best_score = score; best_draw_info = candidate_info
KeepBetter(best, candidate_info, i) ==
    IF CandidateScore(candidate_info) > best.score
    THEN [best EXCEPT !.info = candidate_info,
                      !.score = CandidateScore(candidate_info),
                      !.idx = i]
    ELSE best

\* one iteration of `for query in queries`, on the i-th query
ScanQuery(best, query, i) ==
    IF best.raised THEN best
    ELSE IF query.queryKey = <<>> \/ ~is_draw_query(query.queryKey) THEN best
    ELSE LET u == Unwrap(query.data)
         IN  IF u.raise THEN [best EXCEPT !.raised = TRUE]
             ELSE IF u.skip THEN best
             ELSE KeepBetter(best, u.info, i)

\* the loop over the first n queries: best_draw_info, best_score, and the
\* position idx of the query the fragment came from (0: none)
RECURSIVE ScanQueries(_, _)
ScanQueries(queries, n) ==
    IF n = 0 THEN NoBest
    ELSE ScanQuery(ScanQueries(queries, n - 1), queries[n], n)

\* a or b on nullable numbers / strings
OrNum(a, b) == IF TruthyNum(a) THEN a ELSE b
OrStr(a, b) == IF TruthyStr(a) THEN a ELSE b

Digits == <<"0", "1", "2", "3", "4", "5", "6", "7", "8", "9">>

\* str(n) for n >= 0
RECURSIVE IntToStr(_)
IntToStr(n) == IF n < 10 THEN Digits[n + 1] ELSE IntToStr(n \div 10) \o Digits[(n % 10) + 1]

\* str(cat.get('number'))
StrOf(o) == IF o = None THEN "None" ELSE IntToStr(Val(o))

\* json.dumps of a list of numbers: the text is kept as a tagged copy of the list
JsonDumps(xs) == [json |-> xs]

NoCats == [prize_categories |-> <<>>, winners_count |-> 0,
           winning_numbers |-> None, raised |-> FALSE]

\* one iteration of `for cat in draw_info['winCategories']`
\* acc.winning_numbers is the nullable list held by the local winning_numbers
ScanCategory(acc, cat) ==
    IF acc.raised THEN acc
    ELSE IF "title" \in DOMAIN cat /\ cat["title"] = None
    THEN [acc EXCEPT !.raised = TRUE]                 \* None.get('ru')
    ELSE LET title == IF "title" \in DOMAIN cat THEN Val(cat["title"]) ELSE EmptyDict
             ru == Get(title, "ru")
             cat_name == IF TruthyStr(ru) THEN Val(ru) ELSE StrOf(Get(cat, "number"))
             prize == Get(cat, "amount")
             winners == Get(cat, "participants")
             row == [category_name |-> cat_name, prize_amount |-> prize,
                     winners_count |-> winners, probability |-> None]
             collect == (acc.winning_numbers = None \/ Val(acc.winning_numbers) = <<>>)
                            /\ "numbers" \in DOMAIN cat
         IN  IF collect /\ (acc.winning_numbers = None \/ cat["numbers"] = None)
             THEN [acc EXCEPT !.raised = TRUE]        \* None.extend / extend(None)
             ELSE [acc EXCEPT
                     !.prize_categories = Append(@, row),
                     !.winners_count = @ + (IF TruthyNum(winners) THEN Val(winners) ELSE 0),
                     !.winning_numbers =
                         IF collect THEN Some(Val(@) \o Val(cat["numbers"])) ELSE @]

RECURSIVE ScanCategories(_, _, _)
ScanCategories(acc, cats, n) ==
    IF n = 0 THEN acc
    ELSE ScanCategory(ScanCategories(acc, cats, n - 1), cats[n])

\* BestDrawInfo taking pageProps whenever it carries a drawNumber
BestDrawInfoPagePropsFirst(data) ==
    LET best == ScanQueries(data.queries, Len(data.queries))
    IN  IF best.raised THEN [info |-> EmptyDict, from |-> 0, raised |-> TRUE]
        ELSE IF "drawNumber" \in DOMAIN data.page_props
        THEN [info |-> data.page_props, from |-> -1, raised |-> FALSE]
        ELSE [info |-> best.info, from |-> best.idx, raised |-> FALSE]

\* the fragment the fields are extracted from: the best candidate of the
\* queries, else pageProps when it carries a drawNumber.  from: the position
\* of the query used, -1 for pageProps, 0 for none
BestDrawInfo(data) ==
    LET best == ScanQueries(data.queries, Len(data.queries))
    IN  IF best.raised THEN [info |-> EmptyDict, from |-> 0, raised |-> TRUE]
        ELSE IF IsEmptyDict(best.info) /\ "drawNumber" \in DOMAIN data.page_props
        THEN [info |-> data.page_props, from |-> -1, raised |-> FALSE]
        ELSE [info |-> best.info, from |-> best.idx, raised |-> FALSE]

\* parse_from_next_data without the final `if not draw_number: return None`
\* (a missing number is written 0)
parse_from_next_data_keeps_unnumbered(data, lottery_id) ==
    LET best == BestDrawInfo(data)
        draw_info == best.info
        page_props == data.page_props
        draw_number == OrNum(Get(draw_info, "drawNumber"), Get(page_props, "drawNumber"))
        direct == IF "winningNumbers" \in DOMAIN draw_info
                  THEN draw_info["winningNumbers"] ELSE Some(<<>>)
        start == [NoCats EXCEPT !.winning_numbers = direct]
        cats == IF "winCategories" \in DOMAIN draw_info
                THEN IF draw_info["winCategories"] = None
                     THEN [start EXCEPT !.raised = TRUE]
                     ELSE ScanCategories(start, Val(draw_info["winCategories"]),
                                         Len(Val(draw_info["winCategories"])))
                ELSE start
    IN  IF best.raised \/ IsEmptyDict(draw_info) THEN None
        ELSE IF cats.raised THEN None
        ELSE Some([lottery_id |-> lottery_id,
                   draw_number |-> IF TruthyNum(draw_number) THEN Val(draw_number) ELSE 0,
                   draw_date |-> None,
                   winning_numbers |-> JsonDumps(cats.winning_numbers),
                   total_prize_fund |-> None,
                   winners_count |-> cats.winners_count,
                   prize_categories |-> cats.prize_categories])

\* _parse_from_next_data(data, lottery_id): None or Some(draw record)
parse_from_next_data(data, lottery_id) ==
    LET best == BestDrawInfo(data)
        draw_info == best.info
        page_props == data.page_props
        draw_number == OrNum(Get(draw_info, "drawNumber"), Get(page_props, "drawNumber"))
        draw_date == OrStr(OrStr(Get(draw_info, "drawDate"), Get(draw_info, "date")),
                           Get(page_props, "drawDate"))
        direct == IF "winningNumbers" \in DOMAIN draw_info
                  THEN draw_info["winningNumbers"] ELSE Some(<<>>)
        total_prize_fund == OrNum(Get(draw_info, "totalPrizeFund"),
                                  Get(draw_info, "prizeFund"))
        start == [NoCats EXCEPT !.winning_numbers = direct]
        cats == IF "winCategories" \in DOMAIN draw_info
                THEN IF draw_info["winCategories"] = None
                     THEN [start EXCEPT !.raised = TRUE]      \* for cat in None
                     ELSE ScanCategories(start, Val(draw_info["winCategories"]),
                                         Len(Val(draw_info["winCategories"])))
                ELSE start
    IN  IF best.raised \/ IsEmptyDict(draw_info) THEN None
        ELSE IF cats.raised THEN None
        ELSE IF ~TruthyNum(draw_number) THEN None
        ELSE Some([lottery_id |-> lottery_id,
                   draw_number |-> Val(draw_number),
                   draw_date |-> draw_date,
                   winning_numbers |-> JsonDumps(cats.winning_numbers),
                   total_prize_fund |-> total_prize_fund,
                   winners_count |-> cats.winners_count,
                   prize_categories |-> cats.prize_categories])

\* parse_draw_page(url, lottery_id) on a fetched page pg: the fetch may fail
\* ("error"), the page may lack the __NEXT_DATA__ script ("noscript") or
\* carry malformed JSON ("badjson"); otherwise pg.data is the document
parse_draw_page(pg, lottery_id) ==
    IF pg.kind = "ok" THEN parse_from_next_data(pg.data, lottery_id) ELSE None

(***************************************************************************)
(* Archive pages for the extractor.                                        *)
(***************************************************************************)
MaxQueries == 3      \* queries per dehydratedState

SampleCategory ==
    [title |-> Some([ru |-> Some("A")]), amount |-> Some(100), participants |-> Some(2)]

\* a fragment carrying every signal field
FullFragment ==
    [drawNumber |-> Some(7), winCategories |-> Some(<<SampleCategory>>),
     winningNumbers |-> Some(<<1, 2>>), totalPrizeFund |-> Some(1000)]

\* categories that carry their own numbers (RusLotto, Housing)
NumbersCategories ==
    <<[title |-> Some([ru |-> Some("A")]), amount |-> Some(100),
       participants |-> Some(2), numbers |-> Some(<<3, 4>>)],
      [number |-> Some(2), numbers |-> Some(<<5>>)]>>

\* a fragment whose categories carry numbers, with this direct list
NumbersFragment(direct) ==
    [drawNumber |-> Some(7), winCategories |-> Some(NumbersCategories),
     winningNumbers |-> Some(direct)]

Dict(d) == [kind |-> "dict", d |-> d]
List(xs) == [kind |-> "list", xs |-> xs]
Null == [kind |-> "null"]

\* payloads state.data: plain fragments of every completeness class, a
\* list-wrapped one, a nested 'draw' object, an empty list and a JSON null
SamplePayloads ==
    {Dict(Restrict(FullFragment, K)) :
        K \in {{"drawNumber"}, {"winCategories"}, {"winningNumbers"},
               {"winCategories", "winningNumbers"}}}
    \cup {List(<<FullFragment>>),
          Dict([draw |-> Some(Restrict(FullFragment, {"drawNumber", "winCategories"}))]),
          List(<<>>),
          Null}
    \cup {Dict([drawNumber |-> None, winCategories |-> Some(<<SampleCategory>>)])}
    \cup {Dict(Restrict(NumbersFragment(direct), K)) :
            direct \in {<<>>, <<1, 2>>},
            K \in {{"drawNumber", "winCategories"},
                   {"drawNumber", "winCategories", "winningNumbers"}}}

SampleQueries ==
    {[queryKey |-> <<k>>, data |-> d] :
        k \in {"service-draws", "draw-archive", "lottery-info"}, d \in SamplePayloads}
    \cup {[queryKey |-> <<>>, data |-> Dict(FullFragment)]}

\* pageProps without draw fields, with the draw number alone, and with
\* draw fields of its own
SamplePageProps ==
    {EmptyDict,
     [drawNumber |-> Some(9)],
     [drawNumber |-> Some(9), totalPrizeFund |-> Some(5), winningNumbers |-> Some(<<9>>),
      winCategories |-> Some(<<[number |-> Some(1), amount |-> Some(5)]>>)]}

SampleDocs ==
    [page_props : SamplePageProps,
     queries : UNION {[1..n -> SampleQueries] : n \in 0..MaxQueries}]

SamplePages ==
    {[kind |-> k] : k \in {"error", "noscript", "badjson"}}
    \cup {[kind |-> "ok", data |-> d] : d \in SampleDocs}

\* lottery_id passed by the caller
SampleLotteryId == 1

InitParse ==
    /\ page \in SamplePages
    /\ parsed = None
    /\ ScoreIdle
    /\ CatalogIdle
    /\ DrawsIdle
    /\ SitemapIdle
    /\ EngineIdle
    /\ DatabaseIdle

\* draw_data = parser.parse_draw_page(url, lottery_id)
ParseDrawPage ==
    /\ parsed = None
    /\ parsed' = Some([out |-> parse_draw_page(page, SampleLotteryId),
                       used |-> IF page.kind = "ok"
                                THEN BestDrawInfo(page.data).from ELSE 0])
    /\ UNCHANGED <<page, scoreVars, catalogVars, drawVars, sitemapVars, engineVars, dbVars>>

NextParse == ParseDrawPage

SpecParse == InitParse /\ [][NextParse]_vars

(***************************************************************************)
(* Properties of the draw-page extractor, checked under SpecParse.         *)
(***************************************************************************)
Parsed == parsed # None

\* the queries of the parsed page
PageQueries == IF page.kind = "ok" THEN page.data.queries ELSE <<>>

\* a query whose key names a draw query
C7_DrawKeyed(q) == q.queryKey # <<>> /\ q.queryKey[1] \in {"service-draws", "draw-archive"}

\* the draw candidates: draw-keyed queries with a non-empty payload
C7_Candidates ==
    {i \in 1..Len(PageQueries) :
        /\ C7_DrawKeyed(PageQueries[i])
        /\ PageQueries[i].data.kind # "null"
        /\ ~Unwrap(PageQueries[i].data).skip}

\* completeness of the i-th query's fragment:
\* drawNumber +1, winCategories +10, winningNumbers +10, totalPrizeFund +5
C7_Completeness(i) ==
    LET f == Unwrap(PageQueries[i].data).info
        Has(k, w) == IF k \in DOMAIN f THEN w ELSE 0
    IN  Has("drawNumber", 1) + Has("winCategories", 10)
            + Has("winningNumbers", 10) + Has("totalPrizeFund", 5)

\* no draw-keyed query carries a JSON null as payload (which aborts the parse)
C7_WellFormed ==
    \A i \in 1..Len(PageQueries) :
        C7_DrawKeyed(PageQueries[i]) => PageQueries[i].data.kind # "null"

\* C7: the fragment _parse_from_next_data extracts from is a draw candidate
\* of maximum completeness score, and among the candidates of maximum score
\* it is the first in list order, whatever the order of the queries.
C7_FirstBestCandidateUsed ==
    (Parsed /\ C7_WellFormed /\ C7_Candidates # {}) =>
        LET used == Val(parsed).used
        IN  /\ used \in C7_Candidates
            /\ \A j \in C7_Candidates :
                /\ C7_Completeness(j) <= C7_Completeness(used)
                /\ C7_Completeness(j) = C7_Completeness(used) => used <= j

\* two candidates scoring 10 (one by winCategories, one by winningNumbers)
\* followed by a third scoring 20: the third is used
C7_Witness ==
    /\ Parsed
    /\ C7_Candidates = {1, 2, 3}
    /\ DOMAIN Unwrap(PageQueries[1].data).info = {"winCategories"}
    /\ DOMAIN Unwrap(PageQueries[2].data).info = {"winningNumbers"}
    /\ C7_Completeness(3) = 20
    /\ Val(parsed).used = 3

\* the fragment the record was extracted from: pageProps (used = -1) or
\* the unwrapped payload of the used query
UsedFragment ==
    IF Val(parsed).used = -1 THEN page.data.page_props
    ELSE Unwrap(PageQueries[Val(parsed).used].data).info

\* a fragment was selected
FragmentUsed == Parsed /\ page.kind = "ok" /\ Val(parsed).used # 0

\* the draw number of the page: the used fragment's, else pageProps'; None
\* when neither has a number
DeterminedDrawNumber ==
    IF TruthyNum(Get(UsedFragment, "drawNumber")) THEN Get(UsedFragment, "drawNumber")
    ELSE IF TruthyNum(Get(page.data.page_props, "drawNumber"))
         THEN Get(page.data.page_props, "drawNumber")
         ELSE None

\* C24: _parse_from_next_data returns null when neither the selected
\* fragment nor pageProps gives a draw number (and when no fragment is
\* selected at all); every record returned carries that draw number and the
\* lottery_id passed in, so what parse_draw_page hands to the loader is
\* null or a numbered record.
C24_NumberedOrNull ==
    Parsed =>
        LET out == Val(parsed).out
        IN  /\ (~FragmentUsed \/ DeterminedDrawNumber = None) => out = None
            /\ out # None =>
                /\ FragmentUsed
                /\ DeterminedDrawNumber # None
                /\ Val(out).draw_number = Val(DeterminedDrawNumber)
                /\ Val(out).draw_number \in Nat \ {0}
                /\ Val(out).lottery_id = SampleLotteryId

\* a fragment with categories and a null drawNumber was selected on a page
\* whose pageProps has no number either: nothing is returned
C24_Witness ==
    /\ FragmentUsed
    /\ Val(parsed).used > 0
    /\ "drawNumber" \in DOMAIN UsedFragment
    /\ UsedFragment["drawNumber"] = None
    /\ "winCategories" \in DOMAIN UsedFragment
    /\ page.data.page_props = EmptyDict
    /\ Val(parsed).out = None

\* the `numbers` lists of the categories, concatenated in category order
RECURSIVE CategoryNumbers(_)
CategoryNumbers(cats) ==
    IF cats = <<>> THEN <<>>
    ELSE (IF "numbers" \in DOMAIN Head(cats) /\ Head(cats)["numbers"] # None
          THEN Val(Head(cats)["numbers"]) ELSE <<>>)
         \o CategoryNumbers(Tail(cats))

\* C26 (as claimed): when the selected fragment has no winningNumbers key
\* or an empty list under it, the record's winning numbers are the
\* concatenation, in category order, of the `numbers` of all its
\* categories; when it has a non-empty list, that list is the record's
\* winning numbers.
C26_NumbersFromAllCategories ==
    (FragmentUsed /\ Val(parsed).out # None) =>
        LET f == UsedFragment
            out == Val(Val(parsed).out)
            cats == IF "winCategories" \in DOMAIN f THEN Val(f["winCategories"]) ELSE <<>>
        IN  IF "winningNumbers" \notin DOMAIN f
            THEN out.winning_numbers = JsonDumps(Some(CategoryNumbers(cats)))
            ELSE IF f["winningNumbers"] = Some(<<>>)
            THEN out.winning_numbers = JsonDumps(Some(CategoryNumbers(cats)))
            ELSE out.winning_numbers = JsonDumps(f["winningNumbers"])

\* the same page with other page-level properties
WithPageProps(pg, pp) == [pg EXCEPT !.data.page_props = pp]

\* C27: pageProps is the fragment extracted from only when the queries hold
\* no draw candidate and pageProps has a drawNumber key; when the queries
\* hold a draw candidate, the fragment is one of them, the record's prize
\* fund is that fragment's, and its prize categories, winning numbers and
\* prize fund are the same whatever pageProps holds.
C27_PagePropsLastResort ==
    (Parsed /\ page.kind = "ok" /\ C7_WellFormed) =>
        LET used == Val(parsed).used
            out == Val(parsed).out
            Same(a, b) ==
                /\ a.prize_categories = b.prize_categories
                /\ a.winning_numbers = b.winning_numbers
                /\ a.total_prize_fund = b.total_prize_fund
        IN  /\ used = -1 => /\ C7_Candidates = {}
                            /\ "drawNumber" \in DOMAIN page.data.page_props
            /\ C7_Candidates # {} =>
                /\ used \in C7_Candidates
                /\ out # None =>
                    /\ Val(out).total_prize_fund =
                            OrNum(Get(UsedFragment, "totalPrizeFund"),
                                  Get(UsedFragment, "prizeFund"))
                    /\ \A pp \in SamplePageProps :
                        LET other == parse_draw_page(WithPageProps(page, pp),
                                                     SampleLotteryId)
                        IN  other # None => Same(Val(out), Val(other))

\* a record extracted from a query fragment without a prize fund or a draw
\* number, on a page whose pageProps has a number, a prize fund, winning
\* numbers and categories of its own: only the number is taken from
\* pageProps
C27_Witness ==
    /\ FragmentUsed
    /\ Val(parsed).used > 0
    /\ Val(parsed).out # None
    /\ "totalPrizeFund" \in DOMAIN page.data.page_props
    /\ "drawNumber" \notin DOMAIN UsedFragment
    /\ Val(Val(parsed).out).draw_number = 9
    /\ Val(Val(parsed).out).total_prize_fund = None
    /\ Val(Val(parsed).out).prize_categories # <<>>

(***************************************************************************)
(* URLs.  A URL is the sequence of its path tokens: "/" is a token of its  *)
(* own and every other token is a slash-free piece, so that               *)
(* https://www.stoloto.ru/instant/x is                                     *)
(* <<"https:", "/", "/", "www.stoloto.ru", "/", "instant", "/", "x">>.     *)
(***************************************************************************)
Site == <<"https:", "/", "/", "www.stoloto.ru">>

\* the URL of the path made of the pieces ps, with a trailing slash or not
RECURSIVE Path(_)
Path(ps) == IF ps = <<>> THEN <<>> ELSE <<"/", Head(ps)>> \o Path(Tail(ps))

Url(ps, trailing) == Site \o Path(ps) \o (IF trailing THEN <<"/">> ELSE <<>>)

\* needle in url, for a needle made of whole tokens
Contains(url, needle) ==
    \E i \in 1..(Len(url) - Len(needle) + 1) :
        SubSeq(url, i, i + Len(needle) - 1) = needle

\* url.rstrip('/')
RECURSIVE RStrip(_)
RStrip(url) ==
    IF url # <<>> /\ url[Len(url)] = "/" THEN RStrip(SubSeq(url, 1, Len(url) - 1)) ELSE url

\* url.split('/'): the pieces between slashes, '' between adjacent slashes
RECURSIVE Split(_, _)
Split(url, piece) ==
    IF url = <<>> THEN <<piece>>
    ELSE IF Head(url) = "/" THEN <<piece>> \o Split(Tail(url), "")
    ELSE Split(Tail(url), piece \o Head(url))

\* url.count('/')
RECURSIVE CountSlashes(_)
CountSlashes(url) ==
    IF url = <<>> THEN 0
    ELSE (IF Head(url) = "/" THEN 1 ELSE 0) + CountSlashes(Tail(url))

\* pieces of the URL vocabulary that contain 'archive' / start with 'game'
ArchivePieces == {"archive"}
GamePieces == {"game"}

\* 'archive' in loc
MentionsArchive(url) == \E i \in 1..Len(url) : url[i] \in ArchivePieces

\* '/game' in loc
MentionsGame(url) ==
    \E i \in 1..(Len(url) - 1) : url[i] = "/" /\ url[i + 1] \in GamePieces

(***************************************************************************)
(* StolotoParser.parse_sitemap_main and parse_lottery_page                 *)
(* (parsers/stoloto_parser.py:24-57, 87-185).                              *)
(***************************************************************************)
\* the filter on one <loc> of the main sitemap
IsLotteryLoc(loc) ==
    \/ Contains(loc, <<"/", "loto", "/">>)
    \/ Contains(loc, <<"/", "instant", "/">>)
    \/ MentionsGame(loc)
    \/ (CountSlashes(loc) = 3 /\ ~MentionsArchive(loc))

RECURSIVE SelectLocs(_)
SelectLocs(locs) ==
    IF locs = <<>> THEN <<>>
    ELSE (IF IsLotteryLoc(Head(locs)) THEN <<Head(locs)>> ELSE <<>>) \o SelectLocs(Tail(locs))

Range(f) == {f[i] : i \in DOMAIN f}

\* the lists holding every element of S exactly once
Orderings(S) == {f \in [1..Cardinality(S) -> S] : Range(f) = S}

\* parse_sitemap_main returning urls as collected, without list(set(urls))
parse_sitemap_main_no_dedupe(resp) ==
    IF resp.kind = "ok" THEN {SelectLocs(resp.locs)} ELSE {<<>>}

\* the possible values of parse_sitemap_main on a response: [] when the
\* fetch or the XML parse fails, else list(set(urls)), whose order is the
\* set's iteration order
parse_sitemap_main(resp) ==
    IF resp.kind = "ok" THEN Orderings(Range(SelectLocs(resp.locs))) ELSE {<<>>}

\* the first pattern of a priority list that matches: None when none does
RECURSIVE FirstHit(_)
FirstHit(hits) ==
    IF hits = <<>> THEN None
    ELSE IF Head(hits) # None THEN Head(hits) ELSE FirstHit(Tail(hits))

\* slug.replace('-', ' ').title() on the slugs of the URL vocabulary
SlugTitle(slug) ==
    CASE slug = "rapido" -> "Rapido"
      [] slug = "instant" -> "Instant"
      [] slug = "www.stoloto.ru" -> "Www.Stoloto.Ru"
      [] OTHER -> "Title"

\* slug = url.rstrip('/').split('/')[-1], or [-2] under a game/about page
SlugOf(url) ==
    LET pieces == Split(RStrip(url), "")
        last == pieces[Len(pieces)]
    IN  IF last = "game" \/ last = "about" THEN pieces[Len(pieces) - 1] ELSE last

\* LotteryTypeOf reading the type off the page heading when it names one
LotteryTypeFromHeading(url, pg) ==
    IF pg.h1 = Some("Rapido instant") \/ Contains(url, <<"/", "instant", "/">>)
    THEN "instant" ELSE "draw"

\* lottery_type = 'instant' if '/instant/' in url else 'draw'
LotteryTypeOf(url, pg) ==
    IF Contains(url, <<"/", "instant", "/">>) THEN "instant" ELSE "draw"

\* parse_lottery_page(url) on the fetched page pg.  pg.kind = "error" is a
\* failed fetch.  Otherwise pg holds what the page's text yields:
\*   h1          text of the first h1, or None
\*   price       per price pattern, the captured number or None
\*   description content of the meta description, or None
\*   frequency   per frequency pattern, the captured phrase or None
\*   prize       per prize pattern, None or the capture [value, ws]: the
\*               number spelt by its digits and the whitespace between them
\*               ("none", "space", or "other" for tabs and newlines,
\*               which replace(' ', '') leaves in and float() rejects)
parse_lottery_page(url, pg) ==
    IF pg.kind # "ok" THEN None
    ELSE LET lottery_type == LotteryTypeOf(url, pg)
             ticket_price == FirstHit(pg.price)
             draw_frequency == IF lottery_type = "draw" THEN FirstHit(pg.frequency) ELSE None
             prize_match == FirstHit(pg.prize)
             max_prize == IF prize_match # None /\ Val(prize_match).ws # "other"
                          THEN Some(Val(prize_match).value) ELSE None
             slug == SlugOf(url)
         IN  Some([name |-> IF TruthyStr(pg.h1) THEN Val(pg.h1) ELSE SlugTitle(slug),
                   slug |-> slug,
                   lottery_type |-> lottery_type,
                   ticket_price |-> ticket_price,
                   draw_frequency |-> draw_frequency,
                   description |-> IF TruthyStr(pg.description) THEN pg.description ELSE None,
                   max_prize |-> max_prize,
                   url |-> url,
                   is_active |-> TRUE])

\* fallback_lotteries of _load_fallback_data (names transliterated)
FallbackRow(name, slug, lottery_type, price, frequency, description, prize, path) ==
    [name |-> name, slug |-> slug, lottery_type |-> lottery_type,
     ticket_price |-> Some(price), draw_frequency |-> frequency,
     description |-> Some(description), max_prize |-> Some(prize),
     url |-> Url(path, FALSE), is_active |-> TRUE]

fallback_lotteries ==
    <<FallbackRow("Russkoe loto", "rusloto", "draw", 100, Some("1 raz v nedelyu"),
                  "most popular", 500000000, <<"rusloto">>),
      FallbackRow("Zhilishchnaya lotereya", "housing", "draw", 100, Some("1 raz v nedelyu"),
                  "flats", 30000000, <<"housing">>),
      FallbackRow("Rapido", "rapido", "draw", 100, Some("kazhdye 15 minut"),
                  "fast", 5000000, <<"rapido">>),
      FallbackRow("4 iz 20", "4iz20", "draw", 100, Some("kazhdyi den"),
                  "daily", 10000000, <<"4iz20">>),
      FallbackRow("6 iz 45", "6iz45", "draw", 60, Some("2 raza v nedelyu"),
                  "classic", 250000000, <<"6iz45">>),
      FallbackRow("Zolotaya podkova", "gold_horseshoe", "instant", 50, None,
                  "instant", 1000000, <<"instant", "gold_horseshoe">>),
      FallbackRow("Udacha v pridachu", "luck_extra", "instant", 100, None,
                  "instant big", 3000000, <<"instant", "luck_extra">>)>>

(***************************************************************************)
(* load_lotteries and _load_fallback_data (parsers/db_loader.py:15-85,     *)
(* 222-338) over the lotteries table.  Every execute_query(commit=True) is *)
(* one transaction (database/db.py:36-73): it either commits its statement *)
(* or raises and is rolled back.  A new row takes the next id.             *)
(***************************************************************************)
MaxRuns == 2         \* runs of load_lotteries
MaxLocs == 2         \* <loc> entries of a sitemap
MaxFailures == 1     \* statements that raise

\* position of the row with this slug, 0 when there is none
RowOfSlug(tbl, slug) ==
    IF \E i \in 1..Len(tbl) : tbl[i].slug = slug
    THEN CHOOSE i \in 1..Len(tbl) : tbl[i].slug = slug
    ELSE 0

\* the row INSERT INTO lotteries (...) VALUES (...) builds
NewLotteryRow(tbl, rec, t) ==
    [id |-> Len(tbl) + 1, name |-> rec.name, slug |-> rec.slug,
     lottery_type |-> rec.lottery_type, ticket_price |-> rec.ticket_price,
     draw_frequency |-> rec.draw_frequency, description |-> rec.description,
     max_prize |-> rec.max_prize, url |-> rec.url, is_active |-> rec.is_active,
     created_at |-> t, updated_at |-> t]

\* upsert_lottery as a plain INSERT into a table without the slug key
upsert_lottery_no_conflict(tbl, rec, t) == Append(tbl, NewLotteryRow(tbl, rec, t))

\* upsert_lottery with name and url also in the DO UPDATE SET list
upsert_lottery_updates_name(tbl, rec, t) ==
    LET i == RowOfSlug(tbl, rec.slug)
    IN  IF i = 0 THEN Append(tbl, NewLotteryRow(tbl, rec, t))
        ELSE [tbl EXCEPT ![i] = [@ EXCEPT !.name = rec.name,
                                          !.url = rec.url,
                                          !.ticket_price = rec.ticket_price,
                                          !.draw_frequency = rec.draw_frequency,
                                          !.description = rec.description,
                                          !.max_prize = rec.max_prize,
                                          !.updated_at = t]]

\* INSERT ... ON CONFLICT (slug) DO UPDATE SET ticket_price, draw_frequency,
\* description, max_prize, updated_at
upsert_lottery(tbl, rec, t) ==
    LET i == RowOfSlug(tbl, rec.slug)
    IN  IF i = 0 THEN Append(tbl, NewLotteryRow(tbl, rec, t))
        ELSE [tbl EXCEPT ![i] = [@ EXCEPT !.ticket_price = rec.ticket_price,
                                          !.draw_frequency = rec.draw_frequency,
                                          !.description = rec.description,
                                          !.max_prize = rec.max_prize,
                                          !.updated_at = t]]

\* insert_fallback_lottery with the DO UPDATE of load_lotteries
insert_fallback_lottery_updating(tbl, rec, t) == upsert_lottery(tbl, rec, t)

\* INSERT ... ON CONFLICT (slug) DO NOTHING
insert_fallback_lottery(tbl, rec, t) ==
    IF RowOfSlug(tbl, rec.slug) = 0 THEN Append(tbl, NewLotteryRow(tbl, rec, t)) ELSE tbl

\* sitemap entries: a top-level page, an instant page of the same slug, a
\* game sub-page, the instant index with a trailing slash, an archive page
SampleLocs ==
    {Url(<<"rapido">>, FALSE), Url(<<"instant", "rapido">>, FALSE),
     Url(<<"rapido", "game">>, FALSE), Url(<<"instant">>, TRUE),
     Url(<<"rapido", "archive", "1">>, FALSE)}

SitemapResponses ==
    {[kind |-> "error"]}
    \cup {[kind |-> "ok", locs |-> l] :
            l \in UNION {[1..n -> SampleLocs] : n \in 0..MaxLocs}}

\* fetched catalog pages: a failed fetch, a page every pattern finds
\* something in, and a bare page whose only prize capture spans a newline
CatalogPages ==
    {[kind |-> "error"],
     [kind |-> "ok", h1 |-> Some("Rapido instant"),
      price |-> <<None, Some(50), Some(60)>>,
      description |-> Some("fast"),
      frequency |-> <<None, Some("ezhednevno")>>,
      prize |-> <<Some([value |-> 5000000, ws |-> "space"]), None, None>>],
     [kind |-> "ok", h1 |-> None,
      price |-> <<None, None, None>>,
      description |-> None,
      frequency |-> <<None, None>>,
      prize |-> <<None, Some([value |-> 1000, ws |-> "other"]), Some([value |-> 7, ws |-> "none"])>>]}

\* the records parse_lottery_page returns for the urls, failed pages skipped
RECURSIVE ParsePages(_, _)
ParsePages(urls, pgs) ==
    IF urls = <<>> THEN <<>>
    ELSE LET lottery_data == parse_lottery_page(Head(urls), Head(pgs))
         IN  (IF lottery_data # None THEN <<Val(lottery_data)>> ELSE <<>>)
                \o ParsePages(Tail(urls), Tail(pgs))

\* the statement the load loop runs on a record: the upsert of
\* load_lotteries, or the insert-if-absent of _load_fallback_data
store_lottery(mode, tbl, rec, t) ==
    IF mode = "sitemap" THEN upsert_lottery(tbl, rec, t)
    ELSE insert_fallback_lottery(tbl, rec, t)

CatalogStopped(returned) ==
    [pc |-> "idle", mode |-> "none", list |-> <<>>, i |-> 0, loaded_count |-> 0,
     returned |-> returned]

InitCatalog ==
    /\ lotteries = <<>>
    /\ today = 1
    /\ catalog = CatalogStopped(None)
    /\ runs = 0
    /\ failures = 0
    /\ ScoreIdle
    /\ ParseIdle
    /\ DrawsIdle
    /\ SitemapIdle
    /\ EngineIdle
    /\ DatabaseIdle

\* load_lotteries up to the load loop: the sitemap is read and, unless it
\* is empty, every page is fetched and parsed; an empty sitemap switches
\* to the fallback list
LoadLotteriesStart ==
    /\ catalog.pc = "idle"
    /\ runs < MaxRuns
    /\ \E resp \in SitemapResponses :
        \E lottery_urls \in parse_sitemap_main(resp) :
            IF lottery_urls = <<>>
            THEN catalog' = [pc |-> "load", mode |-> "fallback", list |-> fallback_lotteries,
                             i |-> 1, loaded_count |-> 0, returned |-> None]
            ELSE \E pgs \in [1..Len(lottery_urls) -> CatalogPages] :
                    catalog' = [pc |-> "load", mode |-> "sitemap",
                                list |-> ParsePages(lottery_urls, pgs),
                                i |-> 1, loaded_count |-> 0, returned |-> None]
    /\ runs' = runs + 1
    /\ UNCHANGED <<lotteries, today, failures, scoreVars, parseVars, drawVars, sitemapVars, engineVars, dbVars>>

\* one iteration of the load loop: the statement commits, or it raises and
\* the except branch prints the error
LoadLotteryRow ==
    /\ catalog.pc = "load"
    /\ catalog.i <= Len(catalog.list)
    /\ LET rec == catalog.list[catalog.i]
       IN  \/ /\ lotteries' = store_lottery(catalog.mode, lotteries, rec, today)
              /\ catalog' = [catalog EXCEPT !.i = @ + 1, !.loaded_count = @ + 1]
              /\ UNCHANGED failures
           \/ /\ failures < MaxFailures
              /\ failures' = failures + 1
              /\ catalog' = [catalog EXCEPT !.i = @ + 1]
              /\ UNCHANGED lotteries
    /\ UNCHANGED <<today, runs, scoreVars, parseVars, drawVars, sitemapVars, engineVars, dbVars>>

\* return loaded_count
LoadLotteriesReturn ==
    /\ catalog.pc = "load"
    /\ catalog.i > Len(catalog.list)
    /\ catalog' = CatalogStopped(Some(catalog.loaded_count))
    /\ today' = today + 1
    /\ UNCHANGED <<lotteries, runs, failures, scoreVars, parseVars, drawVars, sitemapVars, engineVars, dbVars>>

NextCatalog == LoadLotteriesStart \/ LoadLotteryRow \/ LoadLotteriesReturn

SpecCatalog == InitCatalog /\ [][NextCatalog]_vars

(***************************************************************************)
(* Properties of load_lotteries, checked under SpecCatalog.                *)
(***************************************************************************)
\* the record the load loop is about to store, if any
PendingLottery == catalog.pc = "load" /\ catalog.i <= Len(catalog.list)

\* a table with the time of the last update left out of every row
WithoutUpdatedAt(tbl) == [k \in 1..Len(tbl) |-> [tbl[k] EXCEPT !.updated_at = 0]]

\* C3: after any sequence of load_lotteries runs the lotteries table holds
\* one row per slug, and storing the record at hand twice leaves the rows
\* that storing it once leaves (the update time aside).
C3_OneRowPerSlug ==
    /\ \A i, j \in 1..Len(lotteries) :
            lotteries[i].slug = lotteries[j].slug => i = j
    /\ PendingLottery =>
        LET rec == catalog.list[catalog.i]
            once == store_lottery(catalog.mode, lotteries, rec, today)
            twice == store_lottery(catalog.mode, once, rec, today + 1)
        IN  /\ Len(twice) = Len(once)
            /\ WithoutUpdatedAt(twice) = WithoutUpdatedAt(once)

\* the second run has just stored, over the row a previous run created,
\* the very record that row was created from
C3_Witness ==
    /\ catalog.pc = "load" /\ catalog.mode = "sitemap"
    /\ catalog.i = 2 /\ catalog.loaded_count = 1
    /\ Len(lotteries) = 1
    /\ lotteries[1].created_at < today
    /\ lotteries[1].updated_at = today
    /\ lotteries[1].slug = catalog.list[1].slug
    /\ lotteries[1].url = catalog.list[1].url
    /\ lotteries[1].name = catalog.list[1].name

\* '/instant/' in url
C10_InstantUrl(url) ==
    \E i \in 1..(Len(url) - 2) :
        url[i] = "/" /\ url[i + 1] = "instant" /\ url[i + 2] = "/"

\* C10: every record parse_lottery_page returns has lottery_type 'instant'
\* if its URL contains '/instant/' and 'draw' otherwise, whatever the page
\* holds, and no step changes the lottery_type (or slug) of a stored row.
C10_TypeFromUrlAndNeverChanged ==
    [][/\ catalog'.mode = "sitemap" =>
            \A k \in 1..Len(catalog'.list) :
                catalog'.list[k].lottery_type =
                    IF C10_InstantUrl(catalog'.list[k].url) THEN "instant" ELSE "draw"
       /\ \A i \in 1..Len(lotteries) :
            /\ i <= Len(lotteries')
            /\ lotteries'[i].slug = lotteries[i].slug
            /\ lotteries'[i].lottery_type = lotteries[i].lottery_type]_vars

\* a record of type 'instant' has just been stored over a row of its slug
\* that was created as 'draw', and the row is still 'draw'
C10_Witness ==
    /\ catalog.pc = "load" /\ catalog.mode = "sitemap"
    /\ catalog.i > 1 /\ catalog.loaded_count = catalog.i - 1
    /\ LET rec == catalog.list[catalog.i - 1]
       IN  /\ rec.lottery_type = "instant"
           /\ RowOfSlug(lotteries, rec.slug) # 0
           /\ lotteries[RowOfSlug(lotteries, rec.slug)].lottery_type = "draw"
           /\ lotteries[RowOfSlug(lotteries, rec.slug)].updated_at = today

\* C16: a step of load_lotteries that loads a record whose slug exists
\* leaves the row's id, created_at, slug, name, lottery_type, url and
\* is_active as they were; only ticket_price, draw_frequency, description,
\* max_prize and updated_at may change, and no row is removed.
C16_UpsertFrame ==
    [][\A i \in 1..Len(lotteries) :
        /\ i <= Len(lotteries')
        /\ lotteries'[i].id = lotteries[i].id
        /\ lotteries'[i].created_at = lotteries[i].created_at
        /\ lotteries'[i].slug = lotteries[i].slug
        /\ lotteries'[i].name = lotteries[i].name
        /\ lotteries'[i].lottery_type = lotteries[i].lottery_type
        /\ lotteries'[i].url = lotteries[i].url
        /\ lotteries'[i].is_active = lotteries[i].is_active]_vars

\* a record has just been stored over a row of its slug created by an
\* earlier run from another URL under another name: the row took the
\* record's price and kept its own name and url
C16_Witness ==
    /\ catalog.pc = "load" /\ catalog.mode = "sitemap"
    /\ catalog.i > 1 /\ catalog.loaded_count = catalog.i - 1
    /\ LET rec == catalog.list[catalog.i - 1]
           i == RowOfSlug(lotteries, rec.slug)
       IN  /\ i # 0
           /\ lotteries[i].created_at < today
           /\ lotteries[i].updated_at = today
           /\ lotteries[i].name # rec.name
           /\ lotteries[i].url # rec.url
           /\ lotteries[i].ticket_price = rec.ticket_price
           /\ lotteries[i].max_prize = rec.max_prize

\* the slugs of the built-in fallback lotteries
FallbackSlugs == {fallback_lotteries[k].slug : k \in 1..Len(fallback_lotteries)}

\* C30: a run that takes the fallback path loads the built-in list and
\* nothing parsed from a page; each of its steps leaves every stored row
\* exactly as it was, whatever its slug, and adds at most one row, which is
\* the fallback record at hand under a slug the table did not hold.
C30_FallbackInsertsIfAbsent ==
    [][/\ catalog'.mode = "fallback" => catalog'.list = fallback_lotteries
       /\ catalog.mode = "fallback" =>
            /\ Len(lotteries') \in {Len(lotteries), Len(lotteries) + 1}
            /\ SubSeq(lotteries', 1, Len(lotteries)) = lotteries
            /\ Len(lotteries') = Len(lotteries) + 1 =>
                LET new == lotteries'[Len(lotteries')]
                    rec == catalog.list[catalog.i]
                IN  /\ new.slug \in FallbackSlugs
                    /\ RowOfSlug(lotteries, new.slug) = 0
                    /\ new.slug = rec.slug /\ new.name = rec.name
                    /\ new.ticket_price = rec.ticket_price
                    /\ new.max_prize = rec.max_prize]_vars

\* a fallback run has gone past 'rapido', whose row an earlier run had
\* created from the sitemap with another name and price: the row is as it
\* was, and the fallback lotteries before it have been inserted
C30_Witness ==
    /\ catalog.pc = "load" /\ catalog.mode = "fallback"
    /\ catalog.i > 3
    /\ failures = 0
    /\ Len(lotteries) >= 3
    /\ lotteries[1].slug = "rapido"
    /\ lotteries[1].created_at < today
    /\ lotteries[1].updated_at < today
    /\ lotteries[1].name # fallback_lotteries[3].name
    /\ lotteries[1].ticket_price # fallback_lotteries[3].ticket_price
    /\ lotteries[2].slug = "rusloto"
    /\ lotteries[3].slug = "housing"

(***************************************************************************)
(* load_draws (parsers/db_loader.py:88-219) over the draws and             *)
(* prize_categories tables.  The draw upsert, the delete of a draw's       *)
(* categories and every category insert are separate                       *)
(* execute_query(commit=True) calls, hence separate transactions; a        *)
(* statement that raises ends the iteration for that URL.                  *)
(***************************************************************************)
MaxCats == 2         \* prize categories on a draw page
DRAW_LIMIT == 200

Loaders == {1, 2}

Min(a, b) == IF a <= b THEN a ELSE b

\* parse_sitemap_archive on a response: the <loc>s containing '/archive/'
RECURSIVE SelectArchiveLocs(_)
SelectArchiveLocs(locs) ==
    IF locs = <<>> THEN <<>>
    ELSE (IF Contains(Head(locs), <<"/", "archive", "/">>) THEN <<Head(locs)>> ELSE <<>>)
            \o SelectArchiveLocs(Tail(locs))

parse_sitemap_archive(resp) ==
    IF resp.kind = "ok" THEN SelectArchiveLocs(resp.locs) ELSE <<>>

\* url.replace('https://www.stoloto.ru/', '').split('/')
ArchiveParts(url) ==
    LET prefix == Site \o <<"/">>
    IN  IF Len(url) >= Len(prefix) /\ SubSeq(url, 1, Len(prefix)) = prefix
        THEN Split(SubSeq(url, Len(prefix) + 1, Len(url)), "")
        ELSE Split(url, "")

\* lottery_map[slug] as a nullable id, over SELECT id, slug ... WHERE is_active
LotteryMapGet(tbl, slug) ==
    IF \E i \in 1..Len(tbl) : tbl[i].is_active /\ tbl[i].slug = slug
    THEN Some(tbl[CHOOSE i \in 1..Len(tbl) : tbl[i].is_active /\ tbl[i].slug = slug].id)
    ELSE None

\* valid_urls: the archive URLs whose first path piece is a known slug
RECURSIVE ValidUrls(_, _)
ValidUrls(tbl, urls) ==
    IF urls = <<>> THEN <<>>
    ELSE LET parts == ArchiveParts(Head(urls))
             id == IF Len(parts) >= 2 THEN LotteryMapGet(tbl, parts[1]) ELSE None
         IN  (IF id # None THEN <<[url |-> Head(urls), lottery_id |-> Val(id)]>> ELSE <<>>)
                \o ValidUrls(tbl, Tail(urls))

\* position of the draw row with this key, 0 when there is none
RowOfDraw(tbl, lottery_id, draw_number) ==
    IF \E i \in 1..Len(tbl) : tbl[i].lottery_id = lottery_id /\ tbl[i].draw_number = draw_number
    THEN CHOOSE i \in 1..Len(tbl) :
            tbl[i].lottery_id = lottery_id /\ tbl[i].draw_number = draw_number
    ELSE 0

\* upsert_draw with draw_date also in the DO UPDATE SET list
upsert_draw_updates_date(tbl, d, t) ==
    LET i == RowOfDraw(tbl, d.lottery_id, d.draw_number)
    IN  IF i = 0
        THEN Append(tbl, [id |-> Len(tbl) + 1, lottery_id |-> d.lottery_id,
                          draw_number |-> d.draw_number, draw_date |-> d.draw_date,
                          winning_numbers |-> d.winning_numbers,
                          total_prize_fund |-> d.total_prize_fund,
                          winners_count |-> d.winners_count, created_at |-> t])
        ELSE [tbl EXCEPT ![i] = [@ EXCEPT !.draw_date = d.draw_date,
                                          !.winning_numbers = d.winning_numbers,
                                          !.total_prize_fund = d.total_prize_fund,
                                          !.winners_count = d.winners_count]]

\* INSERT INTO draws ... ON CONFLICT (lottery_id, draw_number) DO UPDATE SET
\* winning_numbers, total_prize_fund, winners_count
upsert_draw(tbl, d, t) ==
    LET i == RowOfDraw(tbl, d.lottery_id, d.draw_number)
    IN  IF i = 0
        THEN Append(tbl, [id |-> Len(tbl) + 1, lottery_id |-> d.lottery_id,
                          draw_number |-> d.draw_number, draw_date |-> d.draw_date,
                          winning_numbers |-> d.winning_numbers,
                          total_prize_fund |-> d.total_prize_fund,
                          winners_count |-> d.winners_count, created_at |-> t])
        ELSE [tbl EXCEPT ![i] = [@ EXCEPT !.winning_numbers = d.winning_numbers,
                                          !.total_prize_fund = d.total_prize_fund,
                                          !.winners_count = d.winners_count]]

\* RETURNING id
ReturnedDrawId(tbl, d) == tbl[RowOfDraw(tbl, d.lottery_id, d.draw_number)].id

\* the rows of a prize_categories table that belong to one draw
CategoriesOfDraw(tbl, draw_id) ==
    LET OfDraw(r) == r.draw_id = draw_id IN SelectSeq(tbl, OfDraw)

\* DELETE FROM prize_categories WHERE draw_id = %s
delete_categories(tbl, draw_id) ==
    LET Others(r) == r.draw_id # draw_id IN SelectSeq(tbl, Others)

\* INSERT INTO prize_categories (...) VALUES (...)
insert_category(tbl, lottery_id, draw_id, cat, t) ==
    Append(tbl, [lottery_id |-> lottery_id, draw_id |-> draw_id,
                 category_name |-> cat.category_name, prize_amount |-> cat.prize_amount,
                 winners_count |-> cat.winners_count, probability |-> cat.probability,
                 created_at |-> t])

\* the locals of a load_draws process.  draw_data, draw_id and k are those
\* of the current iteration; before is the draw's stored categories when
\* its upsert returned, and loaded tells that the iteration got to
\* total_draws += 1
LoaderStopped(returned) ==
    [pc |-> "idle", urls |-> <<>>, i |-> 0, total_draws |-> 0, draw_data |-> None,
     draw_id |-> 0, k |-> 0, before |-> <<>>, loaded |-> FALSE, returned |-> returned]

\* NextUrl counting the iteration whether or not it raised
NextUrlCountsFailures(l, counted) ==
    [l EXCEPT !.pc = "fetch", !.i = @ + 1, !.k = 0, !.loaded = counted,
              !.total_draws = @ + 1]

\* the next URL of the for loop
NextUrl(l, counted) ==
    [l EXCEPT !.pc = "fetch", !.i = @ + 1, !.k = 0, !.loaded = counted,
              !.total_draws = IF counted THEN @ + 1 ELSE @]

(***************************************************************************)
(* Archive sitemaps and draw pages for load_draws, and its processes.      *)
(* A reader stands for the API queries over prize_categories               *)
(* (routes/lotteries.py:98-111, routes/analytics.py:111-125), each one     *)
(* SELECT on the committed table.                                          *)
(***************************************************************************)
MaxDrawRuns == 2     \* runs of load_draws
MaxDrawLocs == 2     \* <loc> entries of the archive sitemap

\* a category without a title and without participants
NumberedCategory == [number |-> Some(2), amount |-> Some(50)]

\* archive entries: a draw of a known lottery, a non-archive page, a draw
\* of a lottery that is not in the table
SampleArchiveLocs ==
    {Url(<<"rapido", "archive", "1">>, FALSE), Url(<<"rapido">>, FALSE),
     Url(<<"bingo", "archive", "2">>, FALSE)}

ArchiveResponses ==
    {[kind |-> "error"]}
    \cup {[kind |-> "ok", locs |-> l] :
            l \in UNION {[1..n -> SampleArchiveLocs] : n \in 0..MaxDrawLocs}}

\* a page whose only query is a service-draws fragment
DrawDoc(n, cats) ==
    LET fragment == [drawNumber |-> Some(n), winCategories |-> Some(cats)]
        query == [queryKey |-> <<"service-draws">>, data |-> Dict(fragment)]
    IN  [page_props |-> EmptyDict, queries |-> <<query>>]

\* draw 7 as a later render of its page gives it: dated, with a prize fund
DatedDrawDoc ==
    LET fragment == [drawNumber |-> Some(7), drawDate |-> Some("2024-01-01"),
                     totalPrizeFund |-> Some(1000),
                     winCategories |-> Some(<<SampleCategory>>)]
        query == [queryKey |-> <<"service-draws">>, data |-> Dict(fragment)]
    IN  [page_props |-> EmptyDict, queries |-> <<query>>]

\* a page whose only query is a service-draws query with this payload
PayloadDoc(payload) ==
    [page_props |-> EmptyDict,
     queries |-> <<[queryKey |-> <<"service-draws">>, data |-> payload]>>]

\* documents of unexpected shape: a JSON null as payload, a fragment
\* without drawNumber, a null winCategories, a category with a null title
OddDrawDocs ==
    {PayloadDoc(Null),
     PayloadDoc(Dict([winCategories |-> Some(<<SampleCategory>>)])),
     PayloadDoc(Dict([drawNumber |-> Some(7), winCategories |-> None])),
     PayloadDoc(Dict([drawNumber |-> Some(7),
                      winCategories |-> Some(<<[title |-> None, amount |-> Some(1)]>>)]))}

\* fetched draw pages: a failed fetch, a page without the script tag, one
\* with malformed JSON, the documents of unexpected shape, draw 7 with every
\* category list up to MaxCats (the empty one included), draw 7 dated, and
\* draw 8
DrawPages ==
    {[kind |-> "error"], [kind |-> "ok", data |-> DatedDrawDoc]}
    \cup {[kind |-> "ok", data |-> d] : d \in OddDrawDocs}
    \cup {[kind |-> k] : k \in {"noscript", "badjson"}}
    \cup {[kind |-> "ok", data |-> DrawDoc(7, cats)] :
            cats \in UNION {[1..n -> {SampleCategory, NumberedCategory}] : n \in 0..MaxCats}}
    \cup {[kind |-> "ok", data |-> DrawDoc(8, <<SampleCategory>>)]}

InitDraws ==
    /\ lotteries \in {<<>>, <<NewLotteryRow(<<>>, fallback_lotteries[3], 1)>>}
    /\ today = 2
    /\ catalog = CatalogStopped(None)
    /\ runs = 0
    /\ failures = 0
    /\ draws = <<>>
    /\ prize_categories = <<>>
    /\ loader = [w \in Loaders |-> LoaderStopped(None)]
    /\ seen = None
    /\ ScoreIdle
    /\ ParseIdle
    /\ SitemapIdle
    /\ EngineIdle
    /\ DatabaseIdle

\* load_draws up to the for loop: the active lotteries are selected, the
\* archive sitemap is read and filtered; either list being empty returns 0
LoadDrawsStart(w) ==
    /\ loader[w].pc = "idle"
    /\ runs < MaxDrawRuns
    /\ \E resp \in ArchiveResponses :
        LET lotteries_db == SelectSeq(lotteries, LAMBDA r : r.is_active)
            archive_urls == parse_sitemap_archive(resp)
            valid_urls == ValidUrls(lotteries, archive_urls)
        IN  IF lotteries_db = <<>> \/ archive_urls = <<>>
            THEN loader' = [loader EXCEPT ![w] = LoaderStopped(Some(0))]
            ELSE loader' = [loader EXCEPT ![w] =
                    [LoaderStopped(None) EXCEPT
                        !.pc = "fetch", !.i = 1,
                        !.urls = SubSeq(valid_urls, 1, Min(DRAW_LIMIT, Len(valid_urls)))]]
    /\ runs' = runs + 1
    /\ UNCHANGED <<lotteries, today, catalog, failures, draws, prize_categories, seen,
                   scoreVars, parseVars,
                   sitemapVars, engineVars, dbVars>>

\* draw_data = parser.parse_draw_page(url, lottery_id)
FetchDraw(w) ==
    /\ loader[w].pc = "fetch"
    /\ loader[w].i <= Len(loader[w].urls)
    /\ \E pg \in DrawPages :
        LET draw_data == parse_draw_page(pg, loader[w].urls[loader[w].i].lottery_id)
        IN  loader' = [loader EXCEPT ![w] =
                IF draw_data = None THEN NextUrl(@, FALSE)
                ELSE [@ EXCEPT !.pc = "draw", !.draw_data = draw_data, !.draw_id = 0,
                               !.before = <<>>, !.loaded = FALSE]]
    /\ UNCHANGED <<catalogVars, draws, prize_categories, seen, scoreVars, parseVars,
                   sitemapVars, engineVars, dbVars>>

\* the draw upsert: it commits and returns the id, or raises
UpsertDraw(w) ==
    /\ loader[w].pc = "draw"
    /\ LET d == Val(loader[w].draw_data)
           tbl == upsert_draw(draws, d, today)
           draw_id == ReturnedDrawId(tbl, d)
       IN  \/ /\ draws' = tbl
              /\ loader' = [loader EXCEPT ![w] =
                    LET l == [@ EXCEPT !.draw_id = draw_id,
                                       !.before = CategoriesOfDraw(prize_categories, draw_id)]
                    IN  IF d.prize_categories # <<>>
                        THEN [l EXCEPT !.pc = "delete"]
                        ELSE NextUrl(l, TRUE)]
              /\ UNCHANGED failures
           \/ /\ failures < MaxFailures
              /\ failures' = failures + 1
              /\ loader' = [loader EXCEPT ![w] = NextUrl(@, FALSE)]
              /\ UNCHANGED draws
    /\ UNCHANGED <<lotteries, today, catalog, runs, prize_categories, seen,
                   scoreVars, parseVars,
                   sitemapVars, engineVars, dbVars>>

\* DELETE FROM prize_categories WHERE draw_id = %s, committed on its own
DeleteCategories(w) ==
    /\ loader[w].pc = "delete"
    /\ \/ /\ prize_categories' = delete_categories(prize_categories, loader[w].draw_id)
          /\ loader' = [loader EXCEPT ![w] = [@ EXCEPT !.pc = "insert", !.k = 1]]
          /\ UNCHANGED failures
       \/ /\ failures < MaxFailures
          /\ failures' = failures + 1
          /\ loader' = [loader EXCEPT ![w] = NextUrl(@, FALSE)]
          /\ UNCHANGED prize_categories
    /\ UNCHANGED <<lotteries, today, catalog, runs, draws, seen, scoreVars, parseVars,
                   sitemapVars, engineVars, dbVars>>

\* one INSERT INTO prize_categories of the inner loop, committed on its own
InsertCategory(w) ==
    /\ loader[w].pc = "insert"
    /\ LET l == loader[w]
           cats == Val(l.draw_data).prize_categories
       IN  \/ /\ prize_categories' =
                    insert_category(prize_categories, l.urls[l.i].lottery_id, l.draw_id,
                                    cats[l.k], today)
              /\ loader' = [loader EXCEPT ![w] =
                    IF l.k = Len(cats) THEN NextUrl(@, TRUE) ELSE [@ EXCEPT !.k = @ + 1]]
              /\ UNCHANGED failures
           \/ /\ failures < MaxFailures
              /\ failures' = failures + 1
              /\ loader' = [loader EXCEPT ![w] = NextUrl(@, FALSE)]
              /\ UNCHANGED prize_categories
    /\ UNCHANGED <<lotteries, today, catalog, runs, draws, seen, scoreVars, parseVars,
                   sitemapVars, engineVars, dbVars>>

\* return total_draws
LoadDrawsReturn(w) ==
    /\ loader[w].pc = "fetch"
    /\ loader[w].i > Len(loader[w].urls)
    /\ loader' = [loader EXCEPT ![w] = LoaderStopped(Some(@.total_draws))]
    /\ today' = today + 1
    /\ UNCHANGED <<lotteries, catalog, runs, failures, draws, prize_categories, seen,
                   scoreVars, parseVars,
                   sitemapVars, engineVars, dbVars>>

\* one read of a lottery's prize_categories rows (the LEFT JOIN of
\* _get_active_lotteries, the WHERE lottery_id = %s of the API routes)
ReadCategories ==
    /\ \E i \in 1..Len(lotteries) :
        LET OfLottery(r) == r.lottery_id = lotteries[i].id
        IN  seen' = Some([lottery_id |-> lotteries[i].id,
                          rows |-> SelectSeq(prize_categories, OfLottery)])
    /\ seen' # seen
    /\ UNCHANGED <<catalogVars, draws, prize_categories, loader, scoreVars, parseVars,
                   sitemapVars, engineVars, dbVars>>

LoadDraws(w) ==
    \/ LoadDrawsStart(w)
    \/ FetchDraw(w)
    \/ UpsertDraw(w)
    \/ DeleteCategories(w)
    \/ InsertCategory(w)
    \/ LoadDrawsReturn(w)

NextDraws == LoadDraws(1) \/ ReadCategories

SpecDraws == InitDraws /\ [][NextDraws]_vars

(***************************************************************************)
(* Properties of the category replacement, checked under SpecDraws.        *)
(***************************************************************************)
\* the parsed fields of stored category rows, in table order
CategoryFields(rows) ==
    [j \in 1..Len(rows) |->
        [category_name |-> rows[j].category_name, prize_amount |-> rows[j].prize_amount,
         winners_count |-> rows[j].winners_count, probability |-> rows[j].probability]]

\* the categories parsed for the draw of the loader's current iteration
NewCategories(w) == Val(loader[w].draw_data).prize_categories

\* the loader's current iteration has upserted its draw
Replacing(w) == loader[w].draw_id # 0

\* C4: once an iteration of load_draws has loaded a draw whose page carried
\* the category list S2 (empty or not), the rows stored for that draw_id are
\* exactly those of S2, whatever list S1 an earlier load had stored: none of
\* S1's rows survives and none is duplicated.
C4_SecondSetReplacesFirst ==
    \A w \in Loaders :
        loader[w].loaded =>
            CategoryFields(CategoriesOfDraw(prize_categories, loader[w].draw_id))
                = NewCategories(w)

\* C5: in every state of a load_draws run after the draw's upsert, the
\* committed categories of the draw_id are the complete previous set or the
\* complete newly parsed set, a failing delete or insert included.
C5_ReplacementAllOrNothing ==
    \A w \in Loaders :
        Replacing(w) =>
            CategoryFields(CategoriesOfDraw(prize_categories, loader[w].draw_id))
                \in {CategoryFields(loader[w].before), NewCategories(w)}

\* C6: a read of a lottery's prize_categories taken while load_draws is
\* re-loading one of its draws returns, for that draw, all of the old
\* categories or all of the new ones.
C6_ReadsSeeOldOrNew ==
    [][\A w \in Loaders :
        (seen' # seen /\ Replacing(w)
            /\ Val(seen').lottery_id = Val(loader[w].draw_data).lottery_id)
        => CategoryFields(CategoriesOfDraw(Val(seen').rows, loader[w].draw_id))
                \in {CategoryFields(loader[w].before), NewCategories(w)}]_vars

\* no two rows of draws share (lottery_id, draw_number)
C17_OneRowPerDraw ==
    \A i, j \in 1..Len(draws) :
        (draws[i].lottery_id = draws[j].lottery_id
            /\ draws[i].draw_number = draws[j].draw_number) => i = j

\* C17: after any sequence of load_draws runs the draws table holds at most
\* one row per (lottery_id, draw_number), and a step that re-loads a draw
\* leaves the row's id, lottery_id, draw_number, draw_date and created_at
\* as they were (winning_numbers, total_prize_fund and winners_count may
\* change); no row is removed.
C17_DrawUpsertFrame ==
    /\ []C17_OneRowPerDraw
    /\ [][\A i \in 1..Len(draws) :
            /\ i <= Len(draws')
            /\ draws'[i].id = draws[i].id
            /\ draws'[i].lottery_id = draws[i].lottery_id
            /\ draws'[i].draw_number = draws[i].draw_number
            /\ draws'[i].draw_date = draws[i].draw_date
            /\ draws'[i].created_at = draws[i].created_at]_vars

\* a draw stored by an earlier run has just been re-loaded from a page that
\* gives another date and another prize fund: the row took the fund and
\* kept its date
C17_Witness ==
    /\ Replacing(1)
    /\ Len(draws) = 1
    /\ draws[1].id = loader[1].draw_id
    /\ draws[1].created_at < today
    /\ draws[1].draw_date # Val(loader[1].draw_data).draw_date
    /\ draws[1].total_prize_fund = Val(loader[1].draw_data).total_prize_fund
    /\ draws[1].total_prize_fund # None

(***************************************************************************)
(* main() of parsers/db_loader.py: load_lotteries and load_draws run one   *)
(* after the other in one process, in any order over repeated              *)
(* invocations.                                                            *)
(***************************************************************************)
InitPipeline ==
    /\ lotteries = <<>>
    /\ today = 1
    /\ catalog = CatalogStopped(None)
    /\ runs = 0
    /\ failures = 0
    /\ draws = <<>>
    /\ prize_categories = <<>>
    /\ loader = [w \in Loaders |-> LoaderStopped(None)]
    /\ seen = None
    /\ ScoreIdle
    /\ ParseIdle
    /\ SitemapIdle
    /\ EngineIdle
    /\ DatabaseIdle

NextPipeline ==
    \/ /\ loader[1].pc = "idle"
       /\ NextCatalog
    \/ /\ catalog.pc = "idle"
       /\ LoadDraws(1)

SpecPipeline == InitPipeline /\ [][NextPipeline]_vars

(***************************************************************************)
(* Properties of the loader batches, checked under SpecPipeline.           *)
(***************************************************************************)
\* the table holds the record: a row of its slug, carrying (after the
\* upsert of load_lotteries) the record's mutable values as of time t
LotteryStored(tbl, rec, mode, t) ==
    LET i == RowOfSlug(tbl, rec.slug)
    IN  /\ i # 0
        /\ mode = "sitemap" =>
            /\ tbl[i].ticket_price = rec.ticket_price
            /\ tbl[i].draw_frequency = rec.draw_frequency
            /\ tbl[i].description = rec.description
            /\ tbl[i].max_prize = rec.max_prize
            /\ tbl[i].updated_at = t

\* the tables hold the draw of the loader's last iteration: its row with the
\* parsed values and, when the parse had categories, exactly those
DrawStored(dtbl, ctbl, l) ==
    LET d == Val(l.draw_data)
        i == RowOfDraw(dtbl, d.lottery_id, d.draw_number)
    IN  /\ i # 0
        /\ dtbl[i].winning_numbers = d.winning_numbers
        /\ dtbl[i].total_prize_fund = d.total_prize_fund
        /\ dtbl[i].winners_count = d.winners_count
        /\ d.prize_categories # <<>> =>
            CategoryFields(CategoriesOfDraw(ctbl, dtbl[i].id)) = d.prize_categories

\* one step of a running load_lotteries
C12_LotteriesStep ==
    catalog.pc = "load" =>
        IF catalog.i <= Len(catalog.list)
        THEN /\ catalog'.pc = "load"
             /\ catalog'.list = catalog.list
             /\ catalog'.i = catalog.i + 1
             /\ catalog'.loaded_count =
                    catalog.loaded_count + (IF failures' = failures THEN 1 ELSE 0)
             /\ failures' = failures =>
                    LotteryStored(lotteries', catalog.list[catalog.i], catalog.mode, today)
             /\ failures' # failures => lotteries' = lotteries
        ELSE /\ catalog'.pc = "idle"
             /\ catalog'.returned = Some(catalog.loaded_count)

\* one step of a running load_draws
C12_DrawsStep ==
    LET l == loader[1]
        m == loader'[1]
    IN  l.pc # "idle" =>
            /\ failures' # failures =>
                    m.pc = "fetch" /\ m.urls = l.urls /\ m.i = l.i + 1
                        /\ m.total_draws = l.total_draws
            /\ m.pc = "idle" =>
                    l.i = Len(l.urls) + 1 /\ m.returned = Some(l.total_draws)
            /\ m.pc # "idle" =>
                    m.total_draws = l.total_draws
                        + (IF m.i = l.i + 1 /\ failures' = failures /\ l.pc # "fetch"
                           THEN 1 ELSE 0)
            /\ m.total_draws = l.total_draws + 1 =>
                    DrawStored(draws', prize_categories', m)

\* C12: in a batch of load_lotteries or load_draws a statement that raises
\* on one record leaves the loop at the next record, the function returns
\* (it does not raise), and the count it returns is the number of records
\* of the batch whose statements all committed.
C12_FailuresSkippedAndCounted ==
    [][C12_LotteriesStep /\ C12_DrawsStep]_vars

\* the fallback batch lost its first record to a failure and loaded the six
\* after it; the following load_draws run loaded one draw
C12_Witness ==
    /\ catalog.returned = Some(6)
    /\ failures = 1
    /\ Len(lotteries) = 6
    /\ lotteries[1].slug = "housing"
    /\ loader[1].returned = Some(1)
    /\ Len(draws) = 1

(***************************************************************************)
(* The two sitemap parsers on one response                                 *)
(* (parsers/stoloto_parser.py:24-85).  The whole body of each is inside    *)
(* try/except Exception: a request that times out or cannot connect, a     *)
(* non-2xx status (raise_for_status) and a document ET.fromstring rejects  *)
(* all end in the except branch.  An <url> without <loc> text is the       *)
(* empty URL here; no filter accepts it.                                   *)
(***************************************************************************)
MaxSitemapLocs == 3  \* <url> entries of a sitemap response

SitemapFailures == {"timeout", "connection", "status", "badxml"}

SitemapLocs == SampleLocs \cup SampleArchiveLocs \cup {<<>>}

SitemapOutcomes ==
    {[kind |-> k] : k \in SitemapFailures}
    \cup {[kind |-> "ok", locs |-> l] :
            l \in UNION {[1..n -> SitemapLocs] : n \in 0..MaxSitemapLocs}}

InitSitemap ==
    /\ sitemap \in SitemapOutcomes
    /\ found = [main |-> None, archive |-> None]
    /\ ScoreIdle
    /\ ParseIdle
    /\ CatalogIdle
    /\ DrawsIdle
    /\ EngineIdle
    /\ DatabaseIdle

\* lottery_urls = parser.parse_sitemap_main()
ParseSitemapMain ==
    /\ found.main = None
    /\ \E urls \in parse_sitemap_main(sitemap) :
        found' = [found EXCEPT !.main = Some(urls)]
    /\ UNCHANGED <<sitemap, scoreVars, parseVars, catalogVars, drawVars, engineVars, dbVars>>

\* archive_urls = parser.parse_sitemap_archive()
ParseSitemapArchive ==
    /\ found.archive = None
    /\ found' = [found EXCEPT !.archive = Some(parse_sitemap_archive(sitemap))]
    /\ UNCHANGED <<sitemap, scoreVars, parseVars, catalogVars, drawVars, engineVars, dbVars>>

NextSitemap == ParseSitemapMain \/ ParseSitemapArchive

SpecSitemap == InitSitemap /\ [][NextSitemap]_vars

(***************************************************************************)
(* Properties of the sitemap parsers, checked under SpecSitemap.           *)
(***************************************************************************)
\* '/archive/' in url
C18_ArchiveMarked(url) ==
    \E i \in 1..(Len(url) - 2) :
        url[i] = "/" /\ url[i + 1] = "archive" /\ url[i + 2] = "/"

\* C18: both sitemap parsers return a list for every response: the empty
\* list when the fetch or the XML parse failed; on success the archive
\* list holds only URLs containing '/archive/' and the catalog list holds
\* no URL twice.
C18_SitemapsReturnLists ==
    /\ found.main # None =>
        LET urls == Val(found.main)
        IN  /\ DOMAIN urls = 1..Len(urls)
            /\ sitemap.kind # "ok" => urls = <<>>
            /\ \A i, j \in 1..Len(urls) : urls[i] = urls[j] => i = j
    /\ found.archive # None =>
        LET urls == Val(found.archive)
        IN  /\ DOMAIN urls = 1..Len(urls)
            /\ sitemap.kind # "ok" => urls = <<>>
            /\ \A i \in 1..Len(urls) : C18_ArchiveMarked(urls[i])

\* a response listing one lottery page twice and one archive page: the
\* catalog list holds the page once, the archive list the archive page
C18_Witness ==
    /\ sitemap.kind = "ok"
    /\ Len(sitemap.locs) = 3
    /\ sitemap.locs[1] = sitemap.locs[2]
    /\ found.main = Some(<<sitemap.locs[1]>>)
    /\ found.archive = Some(<<sitemap.locs[3]>>)

(***************************************************************************)
(* Two load_draws processes over the same tables (SpecConcurrent): the     *)
(* statements of the two interleave freely, each committed on its own.     *)
(* Each process is given at most one archive URL.                          *)
(***************************************************************************)
\* the URL lists of the two processes hold at most one draw each
OneUrlEach == \A w \in Loaders : Len(loader[w].urls) <= 1

NextConcurrent ==
    \/ LoadDraws(1) /\ OneUrlEach'
    \/ LoadDraws(2) /\ OneUrlEach'

SpecConcurrent == InitDraws /\ [][NextConcurrent]_vars

\* the process has ended the iteration of its draw with every statement
\* committed
Finished(w) == loader[w].loaded /\ loader[w].pc = "fetch"

\* C28 (as claimed): when both load_draws processes have finished loading
\* the same draw, with category lists S1 and S2, the rows stored for its
\* draw_id are exactly S1 or exactly S2.
C28_ConcurrentLoadsLeaveOneSet ==
    (Finished(1) /\ Finished(2) /\ loader[1].draw_id = loader[2].draw_id) =>
        CategoryFields(CategoriesOfDraw(prize_categories, loader[1].draw_id))
            \in {NewCategories(1), NewCategories(2)}

(***************************************************************************)
(* Properties of the page parsers inside the loader, checked under         *)
(* SpecPipeline.                                                           *)
(***************************************************************************)
\* a draw record as _parse_from_next_data builds it: every key, a draw
\* number, dumped winning numbers, a winners total, four-key categories
C19_CompleteDraw(r, lottery_id) ==
    /\ DOMAIN r = {"lottery_id", "draw_number", "draw_date", "winning_numbers",
                   "total_prize_fund", "winners_count", "prize_categories"}
    /\ r.lottery_id = lottery_id
    /\ r.draw_number \in Nat \ {0}
    /\ DOMAIN r.winning_numbers = {"json"}
    /\ r.winners_count \in Nat
    /\ \A k \in 1..Len(r.prize_categories) :
        DOMAIN r.prize_categories[k]
            = {"category_name", "prize_amount", "winners_count", "probability"}

\* a lottery record as parse_lottery_page builds it
C19_CompleteLottery(r, url) ==
    /\ DOMAIN r = {"name", "slug", "lottery_type", "ticket_price", "draw_frequency",
                   "description", "max_prize", "url", "is_active"}
    /\ r.name # "" /\ r.slug # ""
    /\ r.lottery_type \in {"instant", "draw"}
    /\ r.url = url
    /\ r.is_active

\* the pages of a list that parse_lottery_page returns a record for
RECURSIVE C19_Parsable(_)
C19_Parsable(pgs) ==
    IF pgs = <<>> THEN 0
    ELSE (IF Head(pgs).kind = "ok" THEN 1 ELSE 0) + C19_Parsable(Tail(pgs))

\* parse_lottery_page on every sample URL and page, and the parse loop of
\* load_lotteries on every pair of them
C19_LotteryPages ==
    /\ \A url \in SampleLocs, pg \in CatalogPages :
        LET r == parse_lottery_page(url, pg)
        IN  r = None \/ C19_CompleteLottery(Val(r), url)
    /\ \A urls \in [1..2 -> SampleLocs], pgs \in [1..2 -> CatalogPages] :
        Len(ParsePages(urls, pgs)) = C19_Parsable(pgs)

\* one step of load_draws from the head of its loop
C19_FetchStep ==
    LET l == loader[1]
        m == loader'[1]
    IN  (l.pc = "fetch" /\ l.i <= Len(l.urls) /\ m # l) =>
            /\ m.urls = l.urls
            /\ \/ m.pc = "fetch" /\ m.i = l.i + 1 /\ m.total_draws = l.total_draws
               \/ /\ m.pc = "draw" /\ m.i = l.i
                  /\ m.draw_data # None
                  /\ C19_CompleteDraw(Val(m.draw_data), l.urls[l.i].lottery_id)

\* C19: parse_draw_page and parse_lottery_page return a complete record or
\* null for every fetch outcome and page content, and after a null the
\* loader goes on to the next URL.
C19_PagesParsedOrSkipped ==
    /\ []C19_LotteryPages
    /\ [][C19_FetchStep]_vars
    /\ [](catalog.pc = "load" /\ catalog.mode = "sitemap" =>
            \A k \in 1..Len(catalog.list) :
                C19_CompleteLottery(catalog.list[k], catalog.list[k].url))

\* load_draws got null for its first URL and has parsed a record from the
\* second
C19_Witness ==
    /\ loader[1].pc = "draw"
    /\ loader[1].i = 2
    /\ loader[1].total_draws = 0
    /\ failures = 0
    /\ C19_CompleteDraw(Val(loader[1].draw_data), loader[1].urls[2].lottery_id)

(***************************************************************************)
(* RecommendationEngine.generate_recommendations                           *)
(* (recommendations/engine.py:14-124, 235-257) for one user, over the      *)
(* lotteries, user_preferences and recommendations tables.  A call is one  *)
(* step: its queries read the committed tables and its only write is the   *)
(* execute_many of _save_recommendations, one transaction.                 *)
(***************************************************************************)
MaxCalls == 2        \* calls of generate_recommendations
MaxTopN == 2         \* top_n in 0..MaxTopN
MaxLotteries == 3    \* rows of the lotteries table
POPULAR_SCORE == 75
UserId == 1

\* the names of the sample lotteries in the collation order of ORDER BY
NameOrder == <<"Alpha", "Beta", "Delta", "Gamma">>

NameLess(a, b) ==
    \E i, j \in 1..Len(NameOrder) : NameOrder[i] = a /\ NameOrder[j] = b /\ i < j

EngineRecord(name, slug, lottery_type, price, prize, active) ==
    [name |-> name, slug |-> slug, lottery_type |-> lottery_type,
     ticket_price |-> Some(price), draw_frequency |-> None, description |-> None,
     max_prize |-> prize, url |-> Url(<<slug>>, FALSE), is_active |-> active]

\* two draw lotteries alike in every scored attribute, an instant one, and
\* an inactive one
EngineRecords ==
    {EngineRecord("Gamma", "gamma", "draw", 1, Some(5000), TRUE),
     EngineRecord("Alpha", "alpha", "draw", 1, Some(5000), TRUE),
     EngineRecord("Beta", "beta", "instant", 2, None, TRUE),
     EngineRecord("Delta", "delta", "draw", 2, None, FALSE)}

\* the table after inserting the first n records of recs
RECURSIVE BuildLotteries(_, _)
BuildLotteries(recs, n) ==
    IF n = 0 THEN <<>>
    ELSE LET tbl == BuildLotteries(recs, n - 1)
         IN  Append(tbl, NewLotteryRow(tbl, recs[n], 1))

EngineCatalogs ==
    {BuildLotteries(recs, Len(recs)) :
        recs \in UNION {Orderings(S) : S \in {T \in SUBSET EngineRecords :
                                                Cardinality(T) <= MaxLotteries}}}

EnginePreferences ==
    {NoPreferences,
     [NoPreferences EXCEPT !.budget = Some(2), !.preferred_prize_type = Some("instant")],
     [NoPreferences EXCEPT !.budget = Some(2), !.preferred_prize_type = Some("draw")]}

\* AVG(pc.probability) over the lottery's categories, NULLs left out; None
\* when no row has a probability.  Probabilities are in units of 1/ProbDen
RECURSIVE SumProbabilities(_)
SumProbabilities(rows) ==
    IF rows = <<>> THEN 0 ELSE Val(Head(rows).probability) + SumProbabilities(Tail(rows))

AvgProbability(ctbl, lottery_id) ==
    LET Known(r) == r.lottery_id = lottery_id /\ r.probability # None
        rows == SelectSeq(ctbl, Known)
    IN  IF rows = <<>> THEN None ELSE Some(SumProbabilities(rows) \div Len(rows))

\* a row of _get_active_lotteries as the scorer reads it
ScoredRow(r, ctbl) ==
    [ticket_price |-> r.ticket_price, lottery_type |-> Some(r.lottery_type),
     max_prize |-> r.max_prize, avg_win_probability |-> AvgProbability(ctbl, r.id)]

\* the possible results of _get_active_lotteries: the active rows, in an
\* order the query does not fix
get_active_lotteries(tbl) ==
    Orderings({tbl[k] : k \in {k \in 1..Len(tbl) : tbl[k].is_active}})

\* the loop of generate_recommendations over the queried rows
ScoreAll(queried, ctbl, pref) ==
    [k \in 1..Len(queried) |->
        [lottery_id |-> queried[k].id,
         score |-> calculate_lottery_score(ScoredRow(queried[k], ctbl), pref)]]

\* x put into a list sorted by score descending, behind its equals
RECURSIVE InsertByScore(_, _)
InsertByScore(x, sorted) ==
    IF sorted = <<>> THEN <<x>>
    ELSE IF RLt(Head(sorted).score, x.score) THEN <<x>> \o sorted
    ELSE <<Head(sorted)>> \o InsertByScore(x, Tail(sorted))

\* x put into a list sorted by score descending, ahead of its equals
RECURSIVE InsertByScoreAhead(_, _)
InsertByScoreAhead(x, sorted) ==
    IF sorted = <<>> THEN <<x>>
    ELSE IF RLe(Head(sorted).score, x.score) THEN <<x>> \o sorted
    ELSE <<Head(sorted)>> \o InsertByScoreAhead(x, Tail(sorted))

\* SortByScore as an ascending sort reversed: equal scores change places
RECURSIVE SortByScoreTiesReversed(_, _)
SortByScoreTiesReversed(recs, n) ==
    IF n = 0 THEN <<>>
    ELSE InsertByScoreAhead(recs[n], SortByScoreTiesReversed(recs, n - 1))

\* recommendations.sort(key=score, reverse=True) on the first n elements:
\* the sort is stable
RECURSIVE SortByScore(_, _)
SortByScore(recs, n) ==
    IF n = 0 THEN <<>>
    ELSE InsertByScore(recs[n], SortByScore(recs, n - 1))

\* recs[:top_n] for top_n >= 0
Take(recs, top_n) == SubSeq(recs, 1, Min(top_n, Len(recs)))

\* COUNT(r.id) of the LEFT JOIN for one lottery
RecommendationCount(rtbl, lottery_id) ==
    Cardinality({k \in 1..Len(rtbl) : rtbl[k].lottery_id = lottery_id})

\* ORDER BY recommendation_count DESC, l.name: a is placed before b
PopularBefore(a, b, rtbl) ==
    \/ RecommendationCount(rtbl, a.id) > RecommendationCount(rtbl, b.id)
    \/ /\ RecommendationCount(rtbl, a.id) = RecommendationCount(rtbl, b.id)
       /\ NameLess(a.name, b.name)

\* _get_popular_lotteries with ORDER BY l.name alone
get_popular_lotteries_by_name(tbl, rtbl, limit) ==
    {[k \in 1..Min(limit, Len(o)) |->
        [lottery_id |-> o[k].id, score |-> FromInt(POPULAR_SCORE),
         explanation |-> "popular"]] :
     o \in {o \in get_active_lotteries(tbl) :
                \A i, j \in 1..Len(o) : i < j => ~NameLess(o[j].name, o[i].name)}}

\* the possible results of _get_popular_lotteries(limit)
get_popular_lotteries(tbl, rtbl, limit) ==
    {[k \in 1..Min(limit, Len(o)) |->
        [lottery_id |-> o[k].id, score |-> FromInt(POPULAR_SCORE),
         explanation |-> "popular"]] :
     o \in {o \in get_active_lotteries(tbl) :
                \A i, j \in 1..Len(o) : i < j => ~PopularBefore(o[j], o[i], rtbl)}}

\* what _generate_explanation returns: the model's prose, or the rating
\* line of its except branch
Explanations == {"llm", "rating"}

\* top_recommendations with their explanations
Explained(top, ex) ==
    [k \in 1..Len(top) |->
        [lottery_id |-> top[k].lottery_id, score |-> top[k].score,
         explanation |-> ex[k]]]

\* _save_recommendations with the user's earlier rows deleted first
save_recommendations_replacing(rtbl, user_id, items, t) ==
    LET Others(r) == r.user_id # user_id
        kept == SelectSeq(rtbl, Others)
    IN  kept \o [k \in 1..Len(items) |->
                    [id |-> Len(rtbl) + k, user_id |-> user_id,
                     lottery_id |-> items[k].lottery_id, score |-> items[k].score,
                     explanation |-> items[k].explanation, created_at |-> t]]

\* _save_recommendations: one INSERT per item, all under one timestamp
save_recommendations(rtbl, user_id, items, t) ==
    rtbl \o [k \in 1..Len(items) |->
                [id |-> Len(rtbl) + k, user_id |-> user_id,
                 lottery_id |-> items[k].lottery_id, score |-> items[k].score,
                 explanation |-> items[k].explanation, created_at |-> t]]

\* the value of a call: path is the branch taken, queried the ids of the
\* lottery query's rows in the order it returned them, raised tells that
\* the call left through an exception of the save
Reply(path, top_n, queried, items, raised) ==
    [path |-> path, top_n |-> top_n, queried |-> queried, items |-> items,
     raised |-> raised]

InitEngine ==
    /\ lotteries \in EngineCatalogs
    /\ user_preferences \in {None} \cup {Some(p) : p \in EnginePreferences}
    /\ recommendations = <<>>
    /\ reply = None
    /\ today = 2
    /\ runs = 0
    /\ failures = 0
    /\ catalog = CatalogStopped(None)
    /\ draws = <<>>
    /\ prize_categories = <<>>
    /\ loader = [w \in Loaders |-> LoaderStopped(None)]
    /\ seen = None
    /\ ScoreIdle
    /\ ParseIdle
    /\ SitemapIdle
    /\ DatabaseIdle

\* generate_recommendations(user_id, top_n)
GenerateRecommendations ==
    /\ runs < MaxCalls
    /\ \E top_n \in 0..MaxTopN :
        IF user_preferences = None
        THEN /\ \E items \in get_popular_lotteries(lotteries, recommendations, top_n) :
                    reply' = Some(Reply("popular", top_n, <<>>, items, FALSE))
             /\ UNCHANGED <<recommendations, failures>>
        ELSE \E queried \in get_active_lotteries(lotteries) :
                LET ids == [k \in 1..Len(queried) |-> queried[k].id]
                    scored == ScoreAll(queried, prize_categories, Val(user_preferences))
                    top == Take(SortByScore(scored, Len(scored)), top_n)
                IN  \E ex \in [1..Len(top) -> Explanations] :
                        \/ /\ recommendations' =
                                save_recommendations(recommendations, UserId,
                                                     Explained(top, ex), today)
                           /\ reply' = Some(Reply("scored", top_n, ids, Explained(top, ex),
                                                  FALSE))
                           /\ UNCHANGED failures
                        \/ /\ top # <<>>
                           /\ failures < MaxFailures
                           /\ failures' = failures + 1
                           /\ reply' = Some(Reply("scored", top_n, ids, <<>>, TRUE))
                           /\ UNCHANGED recommendations
    /\ runs' = runs + 1
    /\ today' = today + 1
    /\ UNCHANGED <<lotteries, catalog, drawVars, user_preferences, scoreVars, parseVars,
                   sitemapVars, dbVars>>

\* DELETE FROM user_preferences WHERE user_id = %s (routes/preferences.py)
DeletePreferences ==
    /\ user_preferences # None
    /\ user_preferences' = None
    /\ UNCHANGED <<catalogVars, drawVars, recommendations, reply, scoreVars, parseVars,
                   sitemapVars, dbVars>>

NextEngine == GenerateRecommendations \/ DeletePreferences

SpecEngine == InitEngine /\ [][NextEngine]_vars

\* the active rows of the lotteries table
ActiveLotteries == {lotteries[k] : k \in {k \in 1..Len(lotteries) : lotteries[k].is_active}}

LotteryById(id) == CHOOSE r \in Range(lotteries) : r.id = id

\* the ids of the items of a returned list
ItemIds(items) == {items[k].lottery_id : k \in 1..Len(items)}

\* a call of generate_recommendations has returned or raised in this step
Called == runs' = runs + 1

\* C13: for a user with a stored preference row, a call that returns gives
\* min(top_n, number of active lotteries) items, each an active lottery with
\* its score; an item stands before another item, and before every active
\* lottery left out, exactly when its score is higher or the scores are
\* equal and the lottery query returned it earlier
C13_TopByScoreStable ==
    [][(Called /\ user_preferences # None /\ ~Val(reply').raised) =>
        LET r == Val(reply')
            items == r.items
            Score(id) == calculate_lottery_score(
                            ScoredRow(LotteryById(id), prize_categories),
                            Val(user_preferences))
            QPos(id) == CHOOSE k \in 1..Len(r.queried) : r.queried[k] = id
            Ahead(a, b) ==
                \/ RLt(Score(b), Score(a))
                \/ Score(a) = Score(b) /\ QPos(a) < QPos(b)
        IN  /\ Len(items) = Min(r.top_n, Cardinality(ActiveLotteries))
            /\ Range(r.queried) = {x.id : x \in ActiveLotteries}
            /\ ItemIds(items) \subseteq Range(r.queried)
            /\ \A k \in 1..Len(items) : items[k].score = Score(items[k].lottery_id)
            /\ \A i, j \in 1..Len(items) :
                    i < j => Ahead(items[i].lottery_id, items[j].lottery_id)
            /\ \A x \in Range(r.queried) \ ItemIds(items) :
                    \A i \in 1..Len(items) : Ahead(items[i].lottery_id, x)]_vars

\* a call moved the best lottery from the end of the query's rows to the
\* front, and of two equal lotteries behind it returned the one the query
\* gave first, which is not the one inserted first
C13_Witness ==
    /\ reply # None
    /\ user_preferences # None
    /\ Val(reply).path = "scored"
    /\ ~Val(reply).raised
    /\ Len(Val(reply).items) = 2
    /\ Len(Val(reply).queried) = 3
    /\ Val(reply).queried[3] = Val(reply).items[1].lottery_id
    /\ Val(reply).queried[1] = Val(reply).items[2].lottery_id
    /\ RLt(Val(reply).items[2].score, Val(reply).items[1].score)
    /\ Val(reply).items[2].score =
            calculate_lottery_score(
                ScoredRow(LotteryById(Val(reply).queried[2]), prize_categories),
                Val(user_preferences))
    /\ Val(reply).queried[2] < Val(reply).queried[1]

\* C14: the recommendations table only grows at its end: every step keeps
\* each stored row as it was, and a scoring call that returns adds exactly
\* one row per returned item, in order, all with the one timestamp of the call
C14_AppendOnly ==
    [][/\ Len(recommendations') >= Len(recommendations)
       /\ SubSeq(recommendations', 1, Len(recommendations)) = recommendations
       /\ (Called /\ user_preferences # None /\ ~Val(reply').raised) =>
            LET items == Val(reply').items
                new == SubSeq(recommendations', Len(recommendations) + 1,
                              Len(recommendations'))
            IN  /\ Len(new) = Len(items)
                /\ \A k \in 1..Len(new) :
                        /\ new[k].user_id = UserId
                        /\ new[k].lottery_id = items[k].lottery_id
                        /\ new[k].score = items[k].score
                        /\ new[k].explanation = items[k].explanation
                        /\ new[k].created_at = new[1].created_at
                        /\ \A j \in 1..Len(recommendations) :
                                recommendations[j].id # new[k].id]_vars

\* two scoring calls have returned, the second after the first had stored
\* its rows
C14_Witness ==
    /\ runs = 2
    /\ reply # None
    /\ Val(reply).path = "scored"
    /\ Len(Val(reply).items) = 2
    /\ Len(recommendations) = 4
    /\ recommendations[1].created_at # recommendations[4].created_at
    /\ recommendations[1].created_at = recommendations[2].created_at

\* C15: without a stored preference row a call returns at most top_n active
\* lotteries, each with the score 75, ordered by the number of stored
\* recommendation rows of the lottery, descending, then by name, none left
\* out that the order places before a returned one; the scoring branch is
\* not entered and the recommendations table is unchanged
C15_PopularFallback ==
    [][(Called /\ user_preferences = None) =>
        LET r == Val(reply')
            items == r.items
            Before(a, b) == PopularBefore(LotteryById(a), LotteryById(b), recommendations)
        IN  /\ r.path = "popular"
            /\ r.queried = <<>>
            /\ ~r.raised
            /\ recommendations' = recommendations
            /\ Len(items) = Min(r.top_n, Cardinality(ActiveLotteries))
            /\ ItemIds(items) \subseteq {x.id : x \in ActiveLotteries}
            /\ \A k \in 1..Len(items) : items[k].score = FromInt(75)
            /\ \A i, j \in 1..Len(items) :
                    i < j => /\ items[i].lottery_id # items[j].lottery_id
                             /\ ~Before(items[j].lottery_id, items[i].lottery_id)
            /\ \A x \in {y.id : y \in ActiveLotteries} \ ItemIds(items) :
                    \A i \in 1..Len(items) : ~Before(x, items[i].lottery_id)]_vars

\* a popular list whose first lottery is there by its recommendation count,
\* ahead of one whose name sorts earlier
C15_Witness ==
    /\ reply # None
    /\ Val(reply).path = "popular"
    /\ user_preferences = None
    /\ Len(Val(reply).items) = 2
    /\ recommendations # <<>>
    /\ NameLess(LotteryById(Val(reply).items[2].lottery_id).name,
                LotteryById(Val(reply).items[1].lottery_id).name)

(***************************************************************************)
(* Database (database/db.py:8-85): the connection pool and the context     *)
(* managers get_connection and get_cursor under execute_query and          *)
(* execute_many, one call after the other.                                 *)
(*                                                                         *)
(* The pool is SimpleConnectionPool(minconn, maxconn): it is None before   *)
(* initialize, then [idle, used] counts its idle and its checked-out       *)
(* connections.  getconn hands out an idle connection or opens a new one;  *)
(* putconn takes a connection back, rolls back a transaction left open on  *)
(* it, and keeps it idle unless it is closed or minconn are idle already.  *)
(* A call is [pc, name, commit, conn, cursor, failed, ...]; done is the    *)
(* list of the calls that have ended.                                      *)
(***************************************************************************)
MaxDbCalls == 2      \* calls of execute_query / execute_many
MINCONN == 1
MAXCONN == 10

\* the connection a call holds: closed once it is lost, txn the state of
\* its transaction
NewConnection == [closed |-> FALSE, txn |-> "idle"]

\* cls._pool after SimpleConnectionPool(minconn, maxconn, dsn)
initialize == Some([idle |-> MINCONN, used |-> 0])

\* cls._pool after getconn()
getconn(p) ==
    IF Val(p).idle > 0
    THEN Some([idle |-> Val(p).idle - 1, used |-> Val(p).used + 1])
    ELSE Some([idle |-> 0, used |-> Val(p).used + 1])

\* cls._pool after putconn(conn)
putconn(p, conn) ==
    Some([idle |-> IF ~conn.closed /\ Val(p).idle < MINCONN
                   THEN Val(p).idle + 1 ELSE Val(p).idle,
          used |-> Val(p).used - 1])

\* the finally of get_connection: putconn whether the body returned or raised
release(p, c) == putconn(p, Val(c.conn))

\* no call is running
NoCall(done) ==
    [pc |-> "idle", name |-> "none", commit |-> FALSE, conn |-> None,
     cursor |-> "none", failed |-> "none", rollback |-> "none", raised |-> "none",
     commits |-> 0, committed |-> FALSE, done |-> done]

\* the record of a call that has ended: how it left, and what it did
Ended(c, outcome, taken, returned) ==
    [name |-> c.name, commit |-> c.commit, failed |-> c.failed, outcome |-> outcome,
     rollback |-> c.rollback, raised |-> c.raised, commits |-> c.commits, committed |-> c.committed,
     cursor |-> c.cursor, taken |-> taken, returned |-> returned]

InitDatabase ==
    /\ pool = None
    /\ call = NoCall(<<>>)
    /\ ScoreIdle
    /\ ParseIdle
    /\ CatalogIdle
    /\ DrawsIdle
    /\ SitemapIdle
    /\ EngineIdle

\* Database.execute_query(query, params, fetch, commit) or
\* Database.execute_many(query, data_list), whose commit is always True
Call ==
    /\ call.pc = "idle"
    /\ Len(call.done) < MaxDbCalls
    /\ \E name \in {"execute_query", "execute_many"}, commit \in BOOLEAN :
        /\ name = "execute_many" => commit
        /\ call' = [call EXCEPT !.pc = "getconn", !.name = name, !.commit = commit]
    /\ UNCHANGED <<pool, scoreVars, parseVars, catalogVars, drawVars, sitemapVars,
                   engineVars>>

\* get_connection up to the yield: initialize when there is no pool, then
\* getconn; either may raise, and then nothing is checked out
GetConnection ==
    /\ call.pc = "getconn"
    /\ \/ /\ pool' = getconn(IF pool = None THEN initialize ELSE pool)
          /\ call' = [call EXCEPT !.pc = "cursor", !.conn = Some(NewConnection)]
       \/ /\ IF pool = None THEN TRUE ELSE Val(pool).idle = 0
          /\ pool' = pool
          /\ call' = NoCall(Append(call.done,
                        Ended([call EXCEPT !.failed = "connect", !.raised = "connect"],
                              "raised", FALSE, FALSE)))
    /\ UNCHANGED <<scoreVars, parseVars, catalogVars, drawVars, sitemapVars, engineVars>>

\* cursor = conn.cursor(cursor_factory=RealDictCursor)
OpenCursor ==
    /\ call.pc = "cursor"
    /\ call' = [call EXCEPT !.pc = "execute", !.cursor = "open"]
    /\ UNCHANGED <<pool, scoreVars, parseVars, catalogVars, drawVars, sitemapVars,
                   engineVars>>

\* cursor.execute(query, params) / cursor.executemany(query, data_list):
\* the statement runs inside the connection's transaction, or raises
Execute ==
    /\ call.pc = "execute"
    /\ \/ call' = [call EXCEPT !.pc = IF call.commit THEN "commit" ELSE "close",
                               !.conn = Some([Val(@) EXCEPT !.txn = "open"])]
       \/ call' = [call EXCEPT !.pc = "rollback", !.failed = "execute",
                               !.conn = Some([Val(@) EXCEPT !.txn = "open"])]
    /\ UNCHANGED <<pool, scoreVars, parseVars, catalogVars, drawVars, sitemapVars,
                   engineVars>>

\* if commit: conn.commit()
Commit ==
    /\ call.pc = "commit"
    /\ \/ call' = [call EXCEPT !.pc = "close", !.commits = @ + 1, !.committed = TRUE,
                               !.conn = Some([Val(@) EXCEPT !.txn = "idle"])]
       \/ call' = [call EXCEPT !.pc = "rollback", !.commits = @ + 1, !.failed = "commit"]
    /\ UNCHANGED <<pool, scoreVars, parseVars, catalogVars, drawVars, sitemapVars,
                   engineVars>>

\* except Exception as e: conn.rollback(); raise e.  On a lost connection
\* rollback raises itself, before raise e is reached: the connection is
\* closed and the exception that leaves is rollback's
Rollback ==
    /\ call.pc = "rollback"
    /\ \/ call' = [call EXCEPT !.pc = "close", !.rollback = "done", !.raised = call.failed,
                               !.conn = Some([Val(@) EXCEPT !.txn = "idle"])]
       \/ call' = [call EXCEPT !.pc = "close", !.rollback = "raised",
                               !.raised = "rollback",
                               !.conn = Some([Val(@) EXCEPT !.txn = "idle",
                                                            !.closed = TRUE])]
    /\ UNCHANGED <<pool, scoreVars, parseVars, catalogVars, drawVars, sitemapVars,
                   engineVars>>

\* finally: cursor.close()
CloseCursor ==
    /\ call.pc = "close"
    /\ call' = [call EXCEPT !.pc = "putconn", !.cursor = "closed"]
    /\ UNCHANGED <<pool, scoreVars, parseVars, catalogVars, drawVars, sitemapVars,
                   engineVars>>

\* get_connection after the yield, and the end of the call: the result is
\* returned, or the exception leaves the call
PutConnection ==
    /\ call.pc = "putconn"
    /\ pool' = release(pool, call)
    /\ call' = NoCall(Append(call.done,
                    Ended(call, IF call.failed = "none" THEN "returned" ELSE "raised",
                          TRUE, Val(pool').used < Val(pool).used)))
    /\ UNCHANGED <<scoreVars, parseVars, catalogVars, drawVars, sitemapVars, engineVars>>

NextDatabase ==
    \/ Call
    \/ GetConnection
    \/ OpenCursor
    \/ Execute
    \/ Commit
    \/ Rollback
    \/ CloseCursor
    \/ PutConnection

SpecDatabase == InitDatabase /\ [][NextDatabase]_vars

(***************************************************************************)
(* Properties of Database, checked under SpecDatabase.                     *)
(***************************************************************************)
\* C29: after any sequence of execute_query and execute_many calls every
\* connection taken has been returned (none stays checked out between
\* calls), a call with commit=False never commits, and a failing statement
\* is rolled back and its own exception is the one that reaches the caller.
C29_ReturnedRolledBackReraised ==
    /\ call.pc = "idle" => (IF pool = None THEN TRUE ELSE Val(pool).used = 0)
    /\ \A k \in 1..Len(call.done) :
        LET c == call.done[k]
        IN  /\ c.taken => c.returned
            /\ ~c.commit => c.commits = 0 /\ ~c.committed
            /\ c.failed = "execute" =>
                    /\ c.rollback = "done"
                    /\ c.outcome = "raised"
                    /\ c.raised = "execute"

\* what does hold of Database: between calls no connection is checked out,
\* whatever the calls before did; a call whose statement (or its commit)
\* failed has called rollback, has committed nothing and has left by
\* raising; a call with commit=False has never called commit; and every
\* call that took a connection has put it back with its cursor closed.
ConnectionsReturned ==
    /\ call.pc = "idle" => (IF pool = None THEN TRUE ELSE Val(pool).used = 0)
    /\ IF pool = None THEN TRUE
       ELSE Val(pool).used \in {0, 1} /\ Val(pool).idle \in 0..MINCONN
    /\ \A k \in 1..Len(call.done) :
        LET c == call.done[k]
        IN  /\ c.taken => c.returned /\ c.cursor = "closed"
            /\ c.failed \in {"execute", "commit"} =>
                    /\ c.rollback # "none"
                    /\ ~c.committed
                    /\ c.outcome = "raised"
            /\ c.failed = "none" <=> c.outcome = "returned"
            /\ ~c.commit => c.commits = 0 /\ ~c.committed
            /\ (c.commit /\ c.outcome = "returned") => c.committed /\ c.commits = 1

\* a call whose statement raised was followed by a call with commit=False
\* that returned, and the pool holds its connection idle again
ReturnedAfterFailure ==
    /\ call.pc = "idle"
    /\ Len(call.done) = 2
    /\ call.done[1].failed = "execute"
    /\ call.done[1].outcome = "raised"
    /\ call.done[1].rollback = "done"
    /\ ~call.done[2].commit
    /\ call.done[2].outcome = "returned"
    /\ pool = Some([idle |-> 1, used |-> 0])

====
